---- MODULE Spec2Model ----
(***************************************************************************)
(* Chunk storage, neighbor links, face visibility and greedy meshing of    *)
(* the voxel engine (Chunk, VoxelRenderer::buildGreedyMesh), and the world *)
(* index of chunks with its coordinate conversions (VoxelGame).            *)
(***************************************************************************)
EXTENDS Integers, Sequences, FiniteSets, TLC

\* ------------------------------------------------------------------ bounds
\* Chunk dimensions of the build, scaled down from the engine's
\* 16 x 256 x 16.
SmallSizeX == 2
SmallSizeY == 2
SmallSizeZ == 1
\* Chunk dimension, on every axis, of the build whose chunk has interior
\* cells.
CavitySize == 3

\* The chunk dimensions are constants of the build (Chunk::CHUNK_SIZE_X,
\* _Y, _Z): chosen by Init and never changed.
VARIABLE chunkSize
CHUNK_SIZE_X == chunkSize[1]
CHUNK_SIZE_Y == chunkSize[2]
CHUNK_SIZE_Z == chunkSize[3]
SmallChunk == <<SmallSizeX, SmallSizeY, SmallSizeZ>>
\* How far outside the chunk the calls of the model reach, per axis.
Margin == 1
\* Number of setVoxel calls and of setNeighbor calls in one behaviour.
MaxWrites == 2
MaxLinks == 1
\* World coordinates the conversions are applied to: -MaxWorld..MaxWorld.
MaxWorld == 4
\* The world of the VoxelGame calls: WorldSpan chunks on either side of the
\* origin along x and z and WorldSpan chunks up from y = 0, and at most
\* MaxChunks chunks created.
WorldSpan == 1
MaxChunks == 2

\* ------------------------------------------------------------------ types
Air == "Air"
Grass == "Grass"
Dirt == "Dirt"
Stone == "Stone"
Sand == "Sand"
Water == "Water"
Wood == "Wood"
Leaves == "Leaves"
VoxelType == {Air, Grass, Dirt, Stone, Sand, Water, Wood, Leaves}

Front == "Front"
Back == "Back"
Top == "Top"
Bottom == "Bottom"
Right == "Right"
Left == "Left"
\* VoxelFace::Direction in declaration order (faceDir 0..5 of buildGreedyMesh).
Direction == <<Front, Back, Top, Bottom, Right, Left>>
Directions == {Direction[i] : i \in DOMAIN Direction}

\* A null Chunk pointer; chunk objects are numbered from 1.
nullptr == 0

\* The chunk objects of the harness and the positions they are constructed at.
ChunkIds == {1, 2}
ChunkPos == <<(<<0, 0, 0>>), (<<1, 0, 0>>)>>

\* The cells of a chunk, [0, CHUNK_SIZE) on every axis.
Cells == (0..(CHUNK_SIZE_X - 1)) \X (0..(CHUNK_SIZE_Y - 1)) \X (0..(CHUNK_SIZE_Z - 1))

\* Coordinates the calls are made with: in bounds and up to Margin outside.
XRange == (0 - Margin)..(CHUNK_SIZE_X - 1 + Margin)
YRange == (0 - Margin)..(CHUNK_SIZE_Y - 1 + Margin)
ZRange == (0 - Margin)..(CHUNK_SIZE_Z - 1 + Margin)
\* Direction vectors setNeighbor is called with.
AxisDirs == {<<1, 0, 0>>, <<-1, 0, 0>>, <<0, 1, 0>>, <<0, -1, 0>>, <<0, 0, 1>>, <<0, 0, -1>>}
NeighborDirs == AxisDirs \cup {<<1, 1, 0>>, <<0, -1, 1>>}

VARIABLES
    m_Position,   \* chunk -> chunk coordinate (ivec3)
    m_Voxels,     \* chunk -> flat array of VoxelType
    m_Empty,      \* chunk -> BOOLEAN
    m_Neighbors,  \* chunk -> map from direction key to chunk or nullptr
    linked,       \* history: chunk -> map from direction vector to the last setNeighbor argument
    m_Faces,      \* chunk -> the renderer's VoxelFace list
    m_MergedFaces,\* chunk -> the renderer's MergedFace list
    m_Vertices,   \* chunk -> the renderer's vertex buffer
    m_Indices,    \* chunk -> the renderer's index buffer
    m_Mesh,       \* chunk -> TRUE when the renderer holds a Mesh object
    nWrites,      \* number of setVoxel calls made
    nLinks,       \* number of setNeighbor calls made
    last,         \* history: the last call made, where a specification logs it
    m_Chunks,     \* VoxelGame: chunk key -> chunk
    \* One slice of buildGreedyMesh run step by step on a standalone renderer:
    scanPc,       \* "idle", "fill", "scan" or "done"
    scanDir,      \* direction of the slice
    scanW,        \* layer w of the slice
    sliceInput,   \* cell (x, y, z) -> the type whose face is needed there, Air for none
    mask,         \* mask[v][u]
    types,        \* types[v][u]
    mask0,        \* history: the mask as the fill loops left it
    sv,           \* loop variable v of the scan
    su,           \* loop variable u of the scan
    scanFaces,    \* the merged faces pushed so far
    scanAt,       \* history: the cell <<v, u>> each merged face was found at
    totalFacesBeforeMerging,
    totalFacesAfterMerging

chunkVars == <<m_Position, m_Voxels, m_Empty, m_Neighbors, linked>>
meshVars == <<m_Faces, m_MergedFaces, m_Vertices, m_Indices, m_Mesh>>
vars == <<chunkSize, m_Position, m_Voxels, m_Empty, m_Neighbors, linked,
          m_Faces, m_MergedFaces, m_Vertices, m_Indices, m_Mesh,
          nWrites, nLinks, last, m_Chunks,
          scanPc, scanDir, scanW, sliceInput, mask, types, mask0, sv, su,
          scanFaces, scanAt, totalFacesBeforeMerging, totalFacesAfterMerging>>
scanVars == <<scanPc, scanDir, scanW, sliceInput, mask, types, mask0, sv, su,
              scanFaces, scanAt, totalFacesBeforeMerging, totalFacesAfterMerging>>

\* ------------------------------------------------------------------ Chunk
VoxelCount == CHUNK_SIZE_X * CHUNK_SIZE_Y * CHUNK_SIZE_Z

\* The member initializer of m_Empty (Chunk.hpp).
m_EmptyDefault == TRUE

isValidPosition(x, y, z) ==
    /\ x >= 0 /\ x < CHUNK_SIZE_X
    /\ y >= 0 /\ y < CHUNK_SIZE_Y
    /\ z >= 0 /\ z < CHUNK_SIZE_Z

\* Mutant: the row stride is left out of the index.
VoxelIndex_NoStride(x, y, z) == (y * CHUNK_SIZE_Z + z) + x

VoxelIndex(x, y, z) == (y * CHUNK_SIZE_Z + z) * CHUNK_SIZE_X + x

\* Mutant: an out-of-range read is clamped to the nearest cell.
getVoxel_Clamped(c, x, y, z) ==
    LET cl(v, size) == IF v < 0 THEN 0 ELSE IF v >= size THEN size - 1 ELSE v
    IN  m_Voxels[c][(cl(y, CHUNK_SIZE_Y) * CHUNK_SIZE_Z + cl(z, CHUNK_SIZE_Z)) * CHUNK_SIZE_X
                      + cl(x, CHUNK_SIZE_X)]

getVoxel(c, x, y, z) ==
    IF ~isValidPosition(x, y, z) THEN Air
    ELSE m_Voxels[c][VoxelIndex(x, y, z)]

isEmpty(c) == m_Empty[c]

\* Mutant: the x and y offsets share a decimal digit.
NeighborKey_SharedDigit(dx, dy, dz) == (dx + 1) * 10 + (dy + 1) * 10 + (dz + 1)

\* The key Chunk::setNeighbor and getVoxelWorldSpace compute for a direction.
NeighborKey(dx, dy, dz) == (dx + 1) * 100 + (dy + 1) * 10 + (dz + 1)

\* Mutant: the last cell of an axis already counts as the next chunk.
AxisOffset_LastCellOutside(v, size) == IF v < 0 THEN -1 ELSE IF v >= size - 1 THEN 1 ELSE 0

\* The chunk-relative offset (-1, 0, 1) of an axis coordinate, and the
\* coordinate wrapped into the neighbor's local space.
AxisOffset(v, size) == IF v < 0 THEN -1 ELSE IF v >= size THEN 1 ELSE 0
\* Mutant: the wrap is off by one cell.
AxisWrap_OffByOne(v, size) ==
    IF v < 0 THEN v + size - 1 ELSE IF v >= size THEN v - size + 1 ELSE v

AxisWrap(v, size) == IF v < 0 THEN v + size ELSE IF v >= size THEN v - size ELSE v

\* Mutant: a missing neighbor is taken to be solid.
getVoxelWorldSpace_MissingIsStone(c, x, y, z) ==
    IF isValidPosition(x, y, z) THEN getVoxel(c, x, y, z)
    ELSE LET key == NeighborKey(AxisOffset(x, CHUNK_SIZE_X), AxisOffset(y, CHUNK_SIZE_Y),
                                AxisOffset(z, CHUNK_SIZE_Z))
         IN  IF key \in DOMAIN m_Neighbors[c] /\ m_Neighbors[c][key] # nullptr
             THEN getVoxel(m_Neighbors[c][key], AxisWrap(x, CHUNK_SIZE_X),
                           AxisWrap(y, CHUNK_SIZE_Y), AxisWrap(z, CHUNK_SIZE_Z))
             ELSE Stone

getVoxelWorldSpace(c, x, y, z) ==
    IF isValidPosition(x, y, z) THEN getVoxel(c, x, y, z)
    ELSE LET cx == AxisOffset(x, CHUNK_SIZE_X)
             cy == AxisOffset(y, CHUNK_SIZE_Y)
             cz == AxisOffset(z, CHUNK_SIZE_Z)
             wx == AxisWrap(x, CHUNK_SIZE_X)
             wy == AxisWrap(y, CHUNK_SIZE_Y)
             wz == AxisWrap(z, CHUNK_SIZE_Z)
             key == NeighborKey(cx, cy, cz)
         IN  IF key \in DOMAIN m_Neighbors[c] /\ m_Neighbors[c][key] # nullptr
             THEN getVoxel(m_Neighbors[c][key], wx, wy, wz)
             ELSE Air

\* Mutant: Leaves are classified as opaque.
isVoxelTransparent_NoLeaves(type) ==
    CASE type = Air -> TRUE
      [] type = Water -> TRUE
      [] OTHER -> FALSE

isVoxelTransparent(type) ==
    CASE type = Air -> TRUE
      [] type = Water -> TRUE
      [] type = Leaves -> TRUE
      [] OTHER -> FALSE

\* Mutant: the Top face looks at the cell below.
FaceNeighbor_TopLooksDown(x, y, z, direction) ==
    CASE direction = Front -> <<x, y, z + 1>>
      [] direction = Back -> <<x, y, z - 1>>
      [] direction = Top -> <<x, y - 1, z>>
      [] direction = Bottom -> <<x, y - 1, z>>
      [] direction = Right -> <<x + 1, y, z>>
      [] direction = Left -> <<x - 1, y, z>>

\* The neighbor cell of (x, y, z) across the face of the given direction.
FaceNeighbor(x, y, z, direction) ==
    CASE direction = Front -> <<x, y, z + 1>>
      [] direction = Back -> <<x, y, z - 1>>
      [] direction = Top -> <<x, y + 1, z>>
      [] direction = Bottom -> <<x, y - 1, z>>
      [] direction = Right -> <<x + 1, y, z>>
      [] direction = Left -> <<x - 1, y, z>>

\* Mutant: the early return for an Air voxel is missing.
shouldRenderFace_NoAirCheck(c, x, y, z, direction) ==
    LET currentType == getVoxel(c, x, y, z)
        n == FaceNeighbor(x, y, z, direction)
        neighborType == getVoxelWorldSpace(c, n[1], n[2], n[3])
        isNeighborTransparent == isVoxelTransparent(neighborType)
    IN  IF isNeighborTransparent /\ currentType = neighborType THEN FALSE
        ELSE isNeighborTransparent

shouldRenderFace(c, x, y, z, direction) ==
    LET currentType == getVoxel(c, x, y, z)
    IN  IF currentType = Air THEN FALSE
        ELSE LET n == FaceNeighbor(x, y, z, direction)
                 neighborType == getVoxelWorldSpace(c, n[1], n[2], n[3])
                 isNeighborTransparent == isVoxelTransparent(neighborType)
             IN  IF isNeighborTransparent /\ currentType = neighborType THEN FALSE
                 ELSE isNeighborTransparent

\* ---------------------------------------------------------- VoxelRenderer
\* Axis numbers of buildGreedyMesh: 0 = x, 1 = y, 2 = z.  <<dimU, dimV, dimW>>.
\* Mutant: Top and Bottom slices use the basis of Front and Back.
Basis_TopAsFront(direction) ==
    CASE direction \in {Front, Back} -> <<0, 1, 2>>
      [] direction \in {Top, Bottom} -> <<0, 1, 2>>
      [] direction \in {Right, Left} -> <<2, 1, 0>>

Basis(direction) ==
    CASE direction \in {Front, Back} -> <<0, 1, 2>>
      [] direction \in {Top, Bottom} -> <<0, 2, 1>>
      [] direction \in {Right, Left} -> <<2, 1, 0>>

DimSize(dim, chunkSizeX, chunkSizeY, chunkSizeZ) ==
    CASE dim = 0 -> chunkSizeX
      [] dim = 1 -> chunkSizeY
      [] dim = 2 -> chunkSizeZ

uSizeOf(direction) == DimSize(Basis(direction)[1], CHUNK_SIZE_X, CHUNK_SIZE_Y, CHUNK_SIZE_Z)
vSizeOf(direction) == DimSize(Basis(direction)[2], CHUNK_SIZE_X, CHUNK_SIZE_Y, CHUNK_SIZE_Z)
wSizeOf(direction) == DimSize(Basis(direction)[3], CHUNK_SIZE_X, CHUNK_SIZE_Y, CHUNK_SIZE_Z)

\* pos(0, 0, 0) with the u, v and w components assigned in that order.
UVWtoXYZ(direction, u, v, w) ==
    LET b == Basis(direction)
        p1 == [<<0, 0, 0>> EXCEPT ![b[1] + 1] = u]
        p2 == [p1 EXCEPT ![b[2] + 1] = v]
    IN  [p2 EXCEPT ![b[3] + 1] = w]

\* The mask and the types of slice w after the fill loops.
FillMask(shouldRenderFaceFunc, getVoxelFunc, direction, w) ==
    LET filled == [v \in 0..(vSizeOf(direction) - 1) |->
                     [u \in 0..(uSizeOf(direction) - 1) |->
                        LET pos == UVWtoXYZ(direction, u, v, w)
                        IN  IF shouldRenderFaceFunc[<<pos, direction>>]
                            THEN <<TRUE, getVoxelFunc[pos]>>
                            ELSE <<FALSE, Air>>]]
    IN  [mask |-> [v \in DOMAIN filled |-> [u \in DOMAIN filled[v] |-> filled[v][u][1]]],
         types |-> [v \in DOMAIN filled |-> [u \in DOMAIN filled[v] |-> filled[v][u][2]]]]

\* Mutant: the width loop never extends.
ExtendWidth_Never(msk, typ, uSize, v, u, currentType, width) == width

\* The width loop: extend in u while the next cell is set and of the type.
RECURSIVE ExtendWidth(_, _, _, _, _, _, _)
ExtendWidth(msk, typ, uSize, v, u, currentType, width) ==
    IF u + width < uSize /\ msk[v][u + width] /\ typ[v][u + width] = currentType
    THEN ExtendWidth(msk, typ, uSize, v, u, currentType, width + 1)
    ELSE width

\* Mutant: only the first cell of the next row is tested.
RowExtends_FirstOnly(msk, typ, v, u, currentType, width, height) ==
    msk[v + height][u] /\ typ[v + height][u] = currentType

\* The for loop over du: the whole row v + height extends the rectangle.
RowExtends(msk, typ, v, u, currentType, width, height) ==
    \A du \in 0..(width - 1) :
        msk[v + height][u + du] /\ typ[v + height][u + du] = currentType

\* Mutant: the height loop never extends.
ExtendHeight_Never(msk, typ, vSize, v, u, currentType, width, height) == height

\* Mutant: the rectangle is extended to the last row of the slice.
ExtendHeight_ToEdge(msk, typ, vSize, v, u, currentType, width, height) == vSize - v

\* The height loop.
RECURSIVE ExtendHeight(_, _, _, _, _, _, _, _)
ExtendHeight(msk, typ, vSize, v, u, currentType, width, height) ==
    IF v + height < vSize /\ RowExtends(msk, typ, v, u, currentType, width, height)
    THEN ExtendHeight(msk, typ, vSize, v, u, currentType, width, height + 1)
    ELSE height

\* Mutant: the merged area is not marked as processed.
ClearRect_Skipped(msk, v, u, width, height) == msk

\* Mark the merged area as processed.
ClearRect(msk, v, u, width, height) ==
    [vv \in DOMAIN msk |-> [uu \in DOMAIN msk[vv] |->
        IF vv >= v /\ vv < v + height /\ uu >= u /\ uu < u + width
        THEN FALSE ELSE msk[vv][uu]]]

\* The chunk's world offset as buildGreedyMesh computes it.
ChunkOffset(chunkPos) ==
    <<chunkPos[1] * CHUNK_SIZE_X, chunkPos[2] * 0, chunkPos[3] * CHUNK_SIZE_Z>>

\* Mutant: every merged face is recorded as one cell wide and high.
MakeMergedFace_UnitSize(direction, currentType, u, v, w, width, height, chunkPos) ==
    LET start == UVWtoXYZ(direction, u, v, w)
        off == ChunkOffset(chunkPos)
    IN  [direction |-> direction,
         type |-> currentType,
         start |-> <<start[1] + off[1], start[2] + off[2], start[3] + off[3]>>,
         size |-> <<1, 1>>]

\* The MergedFace created for the rectangle found at (v, u) of slice w.
MakeMergedFace(direction, currentType, u, v, w, width, height, chunkPos) ==
    LET start == UVWtoXYZ(direction, u, v, w)
        off == ChunkOffset(chunkPos)
    IN  [direction |-> direction,
         type |-> currentType,
         start |-> <<start[1] + off[1], start[2] + off[2], start[3] + off[3]>>,
         size |-> <<width, height>>]

\* One pass of the body of the scan loops at cell (v, u): the mask after it
\* and the faces pushed (none when the cell is clear or already processed).
VisitCell(msk, typ, direction, w, v, u, chunkPos) ==
    IF msk[v][u]
    THEN LET currentType == typ[v][u]
             width == ExtendWidth(msk, typ, uSizeOf(direction), v, u, currentType, 1)
             height == ExtendHeight(msk, typ, vSizeOf(direction), v, u, currentType, width, 1)
         IN  [mask |-> ClearRect(msk, v, u, width, height),
              faces |-> <<MakeMergedFace(direction, currentType, u, v, w, width, height, chunkPos)>>]
    ELSE [mask |-> msk, faces |-> <<>>]

\* The scan loops over a slice from cell number k on (row-major, v outer).
RECURSIVE ScanSlice(_, _, _, _, _, _)
ScanSlice(msk, typ, direction, w, k, chunkPos) ==
    IF k >= uSizeOf(direction) * vSizeOf(direction) THEN <<>>
    ELSE LET v == k \div uSizeOf(direction)
             u == k % uSizeOf(direction)
             r == VisitCell(msk, typ, direction, w, v, u, chunkPos)
         IN  r.faces \o ScanSlice(r.mask, typ, direction, w, k + 1, chunkPos)

\* The loop over the layers w of one direction, from layer w on.
RECURSIVE ScanLayers(_, _, _, _, _)
ScanLayers(shouldRenderFaceFunc, getVoxelFunc, direction, w, chunkPos) ==
    IF w >= wSizeOf(direction) THEN <<>>
    ELSE LET f == FillMask(shouldRenderFaceFunc, getVoxelFunc, direction, w)
         IN  ScanSlice(f.mask, f.types, direction, w, 0, chunkPos)
               \o ScanLayers(shouldRenderFaceFunc, getVoxelFunc, direction, w + 1, chunkPos)

\* m_MergedFaces after the loop over the six directions, from faceDir on.
RECURSIVE ScanDirections(_, _, _, _)
ScanDirections(shouldRenderFaceFunc, getVoxelFunc, faceDir, chunkPos) ==
    IF faceDir > Len(Direction) THEN <<>>
    ELSE ScanLayers(shouldRenderFaceFunc, getVoxelFunc, Direction[faceDir], 0, chunkPos)
           \o ScanDirections(shouldRenderFaceFunc, getVoxelFunc, faceDir + 1, chunkPos)

\* Mutant: the indices count vertices from one.
generateFaceIndices_FromOne(baseIndex) ==
    <<baseIndex + 1, baseIndex + 2, baseIndex + 3, baseIndex + 1, baseIndex + 3, baseIndex + 4>>

generateFaceIndices(baseIndex) ==
    <<baseIndex, baseIndex + 1, baseIndex + 2, baseIndex, baseIndex + 2, baseIndex + 3>>

\* The color of a vertex is kept as the voxel type it is looked up by.
getVoxelColor(type) == type

Vertex(position, normal, uv, color) ==
    [position |-> position, normal |-> normal, uv |-> uv, color |-> color]

\* The four corners of a quad at (x, y, z) spanning width and height in the
\* face plane, per direction, as the two vertex generators lay them out.
QuadVertices(direction, x, y, z, width, height, color) ==
    CASE direction = Front ->
           <<Vertex(<<x, y, z + 1>>, <<0, 0, 1>>, <<0, 0>>, color),
             Vertex(<<x + width, y, z + 1>>, <<0, 0, 1>>, <<1, 0>>, color),
             Vertex(<<x + width, y + height, z + 1>>, <<0, 0, 1>>, <<1, 1>>, color),
             Vertex(<<x, y + height, z + 1>>, <<0, 0, 1>>, <<0, 1>>, color)>>
      [] direction = Back ->
           <<Vertex(<<x, y, z>>, <<0, 0, -1>>, <<0, 0>>, color),
             Vertex(<<x, y + height, z>>, <<0, 0, -1>>, <<0, 1>>, color),
             Vertex(<<x + width, y + height, z>>, <<0, 0, -1>>, <<1, 1>>, color),
             Vertex(<<x + width, y, z>>, <<0, 0, -1>>, <<1, 0>>, color)>>
      [] direction = Top ->
           <<Vertex(<<x, y + 1, z>>, <<0, 1, 0>>, <<0, 0>>, color),
             Vertex(<<x, y + 1, z + height>>, <<0, 1, 0>>, <<0, 1>>, color),
             Vertex(<<x + width, y + 1, z + height>>, <<0, 1, 0>>, <<1, 1>>, color),
             Vertex(<<x + width, y + 1, z>>, <<0, 1, 0>>, <<1, 0>>, color)>>
      [] direction = Bottom ->
           <<Vertex(<<x, y, z>>, <<0, -1, 0>>, <<0, 0>>, color),
             Vertex(<<x + width, y, z>>, <<0, -1, 0>>, <<1, 0>>, color),
             Vertex(<<x + width, y, z + height>>, <<0, -1, 0>>, <<1, 1>>, color),
             Vertex(<<x, y, z + height>>, <<0, -1, 0>>, <<0, 1>>, color)>>
      [] direction = Right ->
           <<Vertex(<<x + 1, y, z>>, <<1, 0, 0>>, <<0, 0>>, color),
             Vertex(<<x + 1, y + height, z>>, <<1, 0, 0>>, <<0, 1>>, color),
             Vertex(<<x + 1, y + height, z + width>>, <<1, 0, 0>>, <<1, 1>>, color),
             Vertex(<<x + 1, y, z + width>>, <<1, 0, 0>>, <<1, 0>>, color)>>
      [] direction = Left ->
           <<Vertex(<<x, y, z + width>>, <<-1, 0, 0>>, <<0, 0>>, color),
             Vertex(<<x, y, z>>, <<-1, 0, 0>>, <<1, 0>>, color),
             Vertex(<<x, y + height, z>>, <<-1, 0, 0>>, <<1, 1>>, color),
             Vertex(<<x, y + height, z + width>>, <<-1, 0, 0>>, <<0, 1>>, color)>>

generateMergedFaceVertices(face) ==
    QuadVertices(face.direction, face.start[1], face.start[2], face.start[3],
                 face.size[1], face.size[2], getVoxelColor(face.type))

generateFaceVertices(face) ==
    QuadVertices(face.direction, face.position[1], face.position[2], face.position[3],
                 1, 1, getVoxelColor(face.type))

\* The vertex and index buffers built from a face list, face k (from 0)
\* with baseIndex 4k.
RECURSIVE BuildVertices(_, _)
BuildVertices(faces, k) ==
    IF k > Len(faces) THEN <<>>
    ELSE generateMergedFaceVertices(faces[k]) \o BuildVertices(faces, k + 1)

\* m_Vertices after the vertex loop of buildMesh over the unmerged faces.
RECURSIVE BuildFaceVertices(_, _)
BuildFaceVertices(faces, k) ==
    IF k > Len(faces) THEN <<>>
    ELSE generateFaceVertices(faces[k]) \o BuildFaceVertices(faces, k + 1)

RECURSIVE BuildIndices(_, _)
BuildIndices(faces, k) ==
    IF k > Len(faces) THEN <<>>
    ELSE generateFaceIndices(4 * (k - 1)) \o BuildIndices(faces, k + 1)

\* A map with one key set or overwritten (operator[] of unordered_map).
MapPut(m, k, v) == [j \in DOMAIN m \cup {k} |-> IF j = k THEN v ELSE m[j]]

\* ---------------------------------------------------------------- actions
\* Chunk::Chunk(position)
NewVoxels == [i \in 0..(VoxelCount - 1) |-> Air]

\* Mutant: a write of Air sets the empty flag again.
SetVoxel_ResetsEmpty(c, x, y, z, type) ==
    /\ nWrites < MaxWrites
    /\ nWrites' = nWrites + 1
    /\ IF ~isValidPosition(x, y, z)
       THEN UNCHANGED <<m_Voxels, m_Empty>>
       ELSE /\ m_Voxels' = [m_Voxels EXCEPT ![c][VoxelIndex(x, y, z)] = type]
            /\ m_Empty' = [m_Empty EXCEPT ![c] = (type = Air)]
    /\ UNCHANGED <<m_Position, m_Neighbors, linked, nLinks, meshVars>>

\* Mutant: a write drops the mesh of the chunk.
SetVoxel_InvalidatesMesh(c, x, y, z, type) ==
    /\ nWrites < MaxWrites
    /\ nWrites' = nWrites + 1
    /\ IF ~isValidPosition(x, y, z)
       THEN UNCHANGED <<m_Voxels, m_Empty>>
       ELSE /\ m_Voxels' = [m_Voxels EXCEPT ![c][VoxelIndex(x, y, z)] = type]
            /\ m_Empty' = [m_Empty EXCEPT ![c] = IF type # Air THEN FALSE ELSE @]
    /\ m_MergedFaces' = [m_MergedFaces EXCEPT ![c] = <<>>]
    /\ m_Vertices' = [m_Vertices EXCEPT ![c] = <<>>]
    /\ m_Indices' = [m_Indices EXCEPT ![c] = <<>>]
    /\ m_Mesh' = [m_Mesh EXCEPT ![c] = FALSE]
    /\ UNCHANGED <<m_Position, m_Neighbors, linked, nLinks, m_Faces>>

SetVoxel(c, x, y, z, type) ==
    /\ nWrites < MaxWrites
    /\ nWrites' = nWrites + 1
    /\ IF ~isValidPosition(x, y, z)
       THEN UNCHANGED <<m_Voxels, m_Empty>>
       ELSE /\ m_Voxels' = [m_Voxels EXCEPT ![c][VoxelIndex(x, y, z)] = type]
            /\ m_Empty' = [m_Empty EXCEPT ![c] = IF type # Air THEN FALSE ELSE @]
    /\ UNCHANGED <<m_Position, m_Neighbors, linked, nLinks, meshVars>>

SetNeighbor(c, direction, chunk) ==
    /\ nLinks < MaxLinks
    /\ nLinks' = nLinks + 1
    /\ m_Neighbors' = [m_Neighbors EXCEPT
           ![c] = MapPut(@, NeighborKey(direction[1], direction[2], direction[3]), chunk)]
    /\ linked' = [linked EXCEPT ![c] = MapPut(@, direction, chunk)]
    /\ UNCHANGED <<m_Position, m_Voxels, m_Empty, nWrites, meshVars>>

\* Mutant: every face of a non-Air voxel is added, visible or not.
NaiveFace_NoCulling(c, x, y, z, direction) ==
    <<[direction |-> direction, type |-> getVoxel(c, x, y, z),
       position |-> <<x + m_Position[c][1] * CHUNK_SIZE_X, y,
                      z + m_Position[c][3] * CHUNK_SIZE_Z>>]>>

\* One direction check of the naive Chunk::buildMesh: the face it adds, if any.
NaiveFace(c, x, y, z, direction) ==
    LET off == <<m_Position[c][1] * CHUNK_SIZE_X, m_Position[c][2] * 0,
                 m_Position[c][3] * CHUNK_SIZE_Z>>
    IN  IF shouldRenderFace(c, x, y, z, direction)
        THEN <<[direction |-> direction, type |-> getVoxel(c, x, y, z),
                position |-> <<x + off[1], y + off[2], z + off[3]>>]>>
        ELSE <<>>

\* Mutant: the check of the Bottom direction is missing.
RECURSIVE NaiveFaces_NoBottom(_, _)
NaiveFaces_NoBottom(c, k) ==
    IF k >= VoxelCount THEN <<>>
    ELSE LET x == k % CHUNK_SIZE_X
             z == (k \div CHUNK_SIZE_X) % CHUNK_SIZE_Z
             y == k \div (CHUNK_SIZE_X * CHUNK_SIZE_Z)
         IN  (IF getVoxel(c, x, y, z) = Air THEN <<>>
              ELSE NaiveFace(c, x, y, z, Front) \o NaiveFace(c, x, y, z, Back)
                     \o NaiveFace(c, x, y, z, Top)
                     \o NaiveFace(c, x, y, z, Right) \o NaiveFace(c, x, y, z, Left))
             \o NaiveFaces_NoBottom(c, k + 1)

\* The face list of the naive Chunk::buildMesh: the voxels in y, z, x order
\* from cell number k on, six direction checks per non-Air voxel.
RECURSIVE NaiveFaces(_, _)
NaiveFaces(c, k) ==
    IF k >= VoxelCount THEN <<>>
    ELSE LET x == k % CHUNK_SIZE_X
             z == (k \div CHUNK_SIZE_X) % CHUNK_SIZE_Z
             y == k \div (CHUNK_SIZE_X * CHUNK_SIZE_Z)
         IN  (IF getVoxel(c, x, y, z) = Air THEN <<>>
              ELSE NaiveFace(c, x, y, z, Front) \o NaiveFace(c, x, y, z, Back)
                     \o NaiveFace(c, x, y, z, Top) \o NaiveFace(c, x, y, z, Bottom)
                     \o NaiveFace(c, x, y, z, Right) \o NaiveFace(c, x, y, z, Left))
             \o NaiveFaces(c, k + 1)

\* Chunk::buildMesh of Chunk.cpp: clear(), addFace per visible face, then
\* VoxelRenderer::buildMesh, which returns early on an empty face list.
BuildMeshNaive(c) ==
    \E faces \in {NaiveFaces(c, 0)} :
        /\ m_Faces' = [m_Faces EXCEPT ![c] = faces]
        /\ m_Vertices' = [m_Vertices EXCEPT
               ![c] = BuildFaceVertices(faces, 1)]
        /\ m_Indices' = [m_Indices EXCEPT ![c] = BuildIndices(faces, 1)]
        /\ m_Mesh' = [m_Mesh EXCEPT ![c] = faces # <<>>]
        /\ UNCHANGED <<chunkVars, m_MergedFaces, nWrites, nLinks>>

\* The merged faces buildGreedyMesh produces for chunk c as it stands.
GreedyFaces(c) ==
    ScanDirections([a \in Cells \X Directions |->
                      shouldRenderFace(c, a[1][1], a[1][2], a[1][3], a[2])],
                   [p \in Cells |-> getVoxel(c, p[1], p[2], p[3])], 1, m_Position[c])

\* Mutant: the vector keeps what it held.
clear_KeepsContents(v) == v

\* std::vector::clear, which buildGreedyMesh starts with on its four vectors.
clear(v) == <<>>

\* Chunk::buildMesh (greedy): buildGreedyMesh with the chunk's getVoxel and
\* shouldRenderFace and its position. The faces found are pushed onto the
\* cleared m_MergedFaces, and vertices and indices are generated for every
\* face m_MergedFaces then holds.
BuildMesh(c) ==
    \E faces \in {clear(m_MergedFaces[c]) \o GreedyFaces(c)} :
        /\ m_Faces' = [m_Faces EXCEPT ![c] = clear(@)]
        /\ m_MergedFaces' = [m_MergedFaces EXCEPT ![c] = faces]
        /\ m_Vertices' = [m_Vertices EXCEPT
               ![c] = clear(@) \o BuildVertices(faces, 1)]
        /\ m_Indices' = [m_Indices EXCEPT ![c] = clear(@) \o BuildIndices(faces, 1)]
        /\ m_Mesh' = [m_Mesh EXCEPT ![c] = TRUE]
        /\ UNCHANGED <<chunkVars, nWrites, nLinks>>

NoCall == [op |-> "none", c |-> nullptr, p |-> <<0, 0, 0>>, type |-> Air]

InitChunks ==
    /\ chunkSize = SmallChunk
    /\ last = NoCall
    /\ m_Position = [c \in ChunkIds |-> ChunkPos[c]]
    /\ m_Voxels = [c \in ChunkIds |-> NewVoxels]
    /\ m_Empty = [c \in ChunkIds |-> m_EmptyDefault]
    /\ m_Neighbors = [c \in ChunkIds |-> <<>>]
    /\ linked = [c \in ChunkIds |-> <<>>]
    /\ m_Faces = [c \in ChunkIds |-> <<>>]
    /\ m_MergedFaces = [c \in ChunkIds |-> <<>>]
    /\ m_Vertices = [c \in ChunkIds |-> <<>>]
    /\ m_Indices = [c \in ChunkIds |-> <<>>]
    /\ m_Mesh = [c \in ChunkIds |-> FALSE]
    /\ nWrites = 0
    /\ nLinks = 0
    /\ m_Chunks = <<>>

\* No slice scan is being followed.
ScanIdle ==
    /\ scanPc = "idle"
    /\ scanDir = Front
    /\ scanW = 0
    /\ sliceInput = <<>>
    /\ mask = <<>>
    /\ types = <<>>
    /\ mask0 = <<>>
    /\ sv = 0
    /\ su = 0
    /\ scanFaces = <<>>
    /\ scanAt = <<>>
    /\ totalFacesBeforeMerging = 0
    /\ totalFacesAfterMerging = 0

Init == InitChunks /\ ScanIdle

\* Chunks written and linked in any order.
Next ==
    \/ \E c \in ChunkIds, x \in XRange, y \in YRange, z \in ZRange, type \in VoxelType :
           SetVoxel(c, x, y, z, type) /\ UNCHANGED <<chunkSize, last, scanVars, m_Chunks>>
    \/ \E c \in ChunkIds, direction \in NeighborDirs, chunk \in ChunkIds \cup {nullptr} :
           SetNeighbor(c, direction, chunk) /\ UNCHANGED <<chunkSize, last, scanVars, m_Chunks>>

Spec == Init /\ [][Next]_vars

\* Chunks written only, every call logged.
NextStore ==
    \E c \in ChunkIds, x \in XRange, y \in YRange, z \in ZRange, type \in VoxelType :
        /\ SetVoxel(c, x, y, z, type)
        /\ last' = [op |-> "setVoxel", c |-> c, p |-> <<x, y, z>>, type |-> type]
        /\ UNCHANGED <<chunkSize, scanVars, m_Chunks>>

SpecStore == Init /\ [][NextStore]_vars

\* Chunk 1 written, linked to chunk 2 along an axis and meshed, chunk 2
\* written, in any order.
MeshTypes == {Air, Grass, Stone, Water, Leaves}
Meshed == CHOOSE c \in ChunkIds : ChunkPos[c] = <<0, 0, 0>>
Beside == CHOOSE c \in ChunkIds : ChunkPos[c] = <<1, 0, 0>>

NextMesh ==
    \/ \E c \in ChunkIds, p \in (0..(CHUNK_SIZE_X - 1)) \X (0..(CHUNK_SIZE_Y - 1))
                                 \X (0..(CHUNK_SIZE_Z - 1)), type \in MeshTypes :
           SetVoxel(c, p[1], p[2], p[3], type) /\ UNCHANGED <<chunkSize, last, scanVars, m_Chunks>>
    \/ \E direction \in AxisDirs :
           SetNeighbor(Meshed, direction, Beside) /\ UNCHANGED <<chunkSize, last, scanVars, m_Chunks>>
    \/ BuildMesh(Meshed) /\ UNCHANGED <<chunkSize, last, scanVars, m_Chunks>>

SpecMesh == Init /\ [][NextMesh]_vars

\* Chunks written with any type and meshed by the naive builder.
NextNaive ==
    \/ \E c \in ChunkIds, p \in (0..(CHUNK_SIZE_X - 1)) \X (0..(CHUNK_SIZE_Y - 1))
                                 \X (0..(CHUNK_SIZE_Z - 1)), type \in VoxelType :
           SetVoxel(c, p[1], p[2], p[3], type) /\ UNCHANGED <<chunkSize, last, scanVars, m_Chunks>>
    \/ \E c \in ChunkIds : BuildMeshNaive(c) /\ UNCHANGED <<chunkSize, last, scanVars, m_Chunks>>

SpecNaive == Init /\ [][NextNaive]_vars

\* ------------------------------------------------- one slice, step by step
\* Types of the faces a slice is filled with.
ScanTypes == {Stone, Water}
SliceCells(direction, w) ==
    {UVWtoXYZ(direction, u, v, w) :
        u \in 0..(uSizeOf(direction) - 1), v \in 0..(vSizeOf(direction) - 1)}
TrueCount(msk) ==
    Cardinality({vu \in (DOMAIN msk) \X (0..(uSizeOf(scanDir) - 1)) : msk[vu[1]][vu[2]]})

\* buildGreedyMesh is handed a face predicate and a voxel function: any
\* pattern of needed faces of any types.
InitScan ==
    /\ InitChunks
    /\ scanPc = "fill"
    /\ scanDir \in Directions
    /\ scanW \in 0..(wSizeOf(scanDir) - 1)
    /\ sliceInput \in [SliceCells(scanDir, scanW) -> ScanTypes \cup {Air}]
    /\ mask = <<>>
    /\ types = <<>>
    /\ mask0 = <<>>
    /\ sv = 0
    /\ su = 0
    /\ scanFaces = <<>>
    /\ scanAt = <<>>
    /\ totalFacesBeforeMerging = 0
    /\ totalFacesAfterMerging = 0

\* The fill loops of one slice.
FillSlice ==
    /\ scanPc = "fill"
    /\ \E f \in {FillMask([a \in SliceCells(scanDir, scanW) \X {scanDir} |->
                              sliceInput[a[1]] # Air],
                          sliceInput, scanDir, scanW)} :
          /\ mask' = f.mask
          /\ types' = f.types
          /\ mask0' = f.mask
          /\ totalFacesBeforeMerging' = totalFacesBeforeMerging + TrueCount(f.mask)
    /\ scanPc' = IF vSizeOf(scanDir) > 0 /\ uSizeOf(scanDir) > 0 THEN "scan" ELSE "done"
    /\ UNCHANGED <<scanDir, scanW, sliceInput, sv, su, scanFaces, scanAt,
                   totalFacesAfterMerging>>

\* One pass of the body of the scan loops, and the loop increments.
ScanCell ==
    /\ scanPc = "scan"
    /\ \E r \in {VisitCell(mask, types, scanDir, scanW, sv, su, <<0, 0, 0>>)} :
          /\ mask' = r.mask
          /\ scanFaces' = scanFaces \o r.faces
          /\ scanAt' = IF r.faces # <<>> THEN Append(scanAt, <<sv, su>>) ELSE scanAt
          /\ totalFacesAfterMerging' = totalFacesAfterMerging + Len(r.faces)
    /\ IF su + 1 < uSizeOf(scanDir)
       THEN su' = su + 1 /\ sv' = sv /\ scanPc' = "scan"
       ELSE /\ su' = 0
            /\ sv' = sv + 1
            /\ scanPc' = IF sv + 1 < vSizeOf(scanDir) THEN "scan" ELSE "done"
    /\ UNCHANGED <<scanDir, scanW, sliceInput, types, mask0, totalFacesBeforeMerging>>

NextScan ==
    \/ FillSlice /\ UNCHANGED <<chunkSize, chunkVars, meshVars, nWrites, nLinks, last, m_Chunks>>
    \/ ScanCell /\ UNCHANGED <<chunkSize, chunkVars, meshVars, nWrites, nLinks, last, m_Chunks>>

\* buildGreedyMesh runs to completion in its caller's thread.
SpecScan == InitScan /\ [][NextScan]_vars /\ WF_vars(NextScan)

\* ================================================================ claims
Positions == XRange \X YRange \X ZRange
SizeVec == <<CHUNK_SIZE_X, CHUNK_SIZE_Y, CHUNK_SIZE_Z>>
VecAdd(p, d) == <<p[1] + d[1], p[2] + d[2], p[3] + d[3]>>
\* A position one chunk further in direction d, in that chunk's local space.
WrapInto(p, d) == <<p[1] - d[1] * SizeVec[1], p[2] - d[2] * SizeVec[2], p[3] - d[3] * SizeVec[3]>>
CellOf(c, p) == getVoxel(c, p[1], p[2], p[3])
\* The chunk last passed to setNeighbor(d, .) on c, nullptr when there was none.
LinkedChunk(c, d) == IF d \in DOMAIN linked[c] THEN linked[c][d] ELSE nullptr

\* C1: setVoxel out of bounds changes no cell of any chunk; in bounds it
\* changes exactly the addressed cell: getVoxel there returns the written
\* type afterwards and every other in-bounds getVoxel returns what it did.
C1_SetVoxelFrame ==
    [][\A c \in ChunkIds, p \in Positions :
         (nWrites' = nWrites + 1 /\ last'.c = c /\ last'.p = p) =>
           IF p \in Cells
           THEN /\ CellOf(c, p)' = last'.type
                /\ \A d \in ChunkIds, q \in Cells :
                     (d # c \/ q # p) => CellOf(d, q)' = CellOf(d, q)
           ELSE \A d \in ChunkIds, q \in Cells : CellOf(d, q)' = CellOf(d, q)]_vars

\* An out-of-bounds call was made on a chunk that holds a non-Air voxel.
C1_Witness ==
    /\ last.op = "setVoxel"
    /\ last.p \notin Cells
    /\ last.type # Air
    /\ \E q \in Cells : CellOf(last.c, q) # Air

\* C2: getVoxel returns Air for every position outside the chunk, whatever
\* the chunk holds and whatever neighbors are linked.
C2_GetVoxelOutOfBounds ==
    \A c \in ChunkIds, p \in Positions : p \notin Cells => CellOf(c, p) = Air

\* A neighbor with a non-Air voxel is linked behind the position asked for.
C2_Witness ==
    \E c \in ChunkIds, d \in AxisDirs, q \in Cells :
        /\ VecAdd(q, d) \notin Cells
        /\ LinkedChunk(c, d) # nullptr
        /\ CellOf(LinkedChunk(c, d), WrapInto(VecAdd(q, d), d)) # Air
        /\ CellOf(c, q) # Air
        /\ CellOf(c, VecAdd(q, d)) = Air

\* C3: the empty flag is monotonic: once false it stays false, also under
\* writes of Air; an in-bounds setVoxel of a non-Air type makes it false, an
\* out-of-bounds setVoxel leaves it as it was.
C3_EmptyMonotonic ==
    [][/\ \A c \in ChunkIds : ~isEmpty(c) => ~isEmpty(c)'
       /\ \A c \in ChunkIds :
            (nWrites' = nWrites + 1 /\ last'.c = c) =>
              /\ (last'.p \in Cells /\ last'.type # Air) => ~isEmpty(c)'
              /\ last'.p \notin Cells => isEmpty(c)' = isEmpty(c)]_vars

\* A chunk written non-Air and then back to Air: all cells Air, flag false.
C3_Witness ==
    \E c \in ChunkIds :
        /\ ~isEmpty(c)
        /\ \A q \in Cells : CellOf(c, q) = Air
        /\ last.type = Air

\* C4: getVoxelWorldSpace equals getVoxel in bounds; one cell outside on one
\* axis it returns the voxel of the neighbor linked for that direction at
\* the coordinate wrapped by one chunk size, and Air when no neighbor or a
\* null one is linked.
C4_WorldSpaceLookup ==
    \A c \in ChunkIds, q \in Cells :
        /\ getVoxelWorldSpace(c, q[1], q[2], q[3]) = CellOf(c, q)
        /\ \A d \in AxisDirs :
             LET p == VecAdd(q, d)
             IN  p \notin Cells =>
                   getVoxelWorldSpace(c, p[1], p[2], p[3]) =
                     IF LinkedChunk(c, d) # nullptr
                     THEN CellOf(LinkedChunk(c, d), WrapInto(p, d))
                     ELSE Air

\* A lookup across a boundary that returns a neighbor's non-Air voxel.
C4_Witness ==
    \E c \in ChunkIds, d \in AxisDirs, q \in Cells :
        LET p == VecAdd(q, d)
        IN  /\ p \notin Cells
            /\ LinkedChunk(c, d) # nullptr
            /\ getVoxelWorldSpace(c, p[1], p[2], p[3]) # Air

\* The types the spec classifies as transparent, and the cell offset of a
\* face direction (Front +z, Back -z, Top +y, Bottom -y, Right +x, Left -x).
Transparent == {Air, Water, Leaves}
DirVec(d) ==
    CASE d = Front -> <<0, 0, 1>>
      [] d = Back -> <<0, 0, -1>>
      [] d = Top -> <<0, 1, 0>>
      [] d = Bottom -> <<0, -1, 0>>
      [] d = Right -> <<1, 0, 0>>
      [] d = Left -> <<-1, 0, 0>>
Opposite(d) ==
    CASE d = Front -> Back
      [] d = Back -> Front
      [] d = Top -> Bottom
      [] d = Bottom -> Top
      [] d = Right -> Left
      [] d = Left -> Right
\* The type of the voxel next to cell q of chunk c in direction d: in the
\* chunk itself, in the chunk linked for d, or Air when none is linked.
NeighborType(c, q, d) ==
    LET p == VecAdd(q, DirVec(d))
    IN  IF p \in Cells THEN CellOf(c, p)
        ELSE IF LinkedChunk(c, DirVec(d)) # nullptr
             THEN CellOf(LinkedChunk(c, DirVec(d)), WrapInto(p, DirVec(d)))
             ELSE Air

\* C5: Air never emits geometry: shouldRenderFace is false in every
\* direction at a position whose voxel is Air, and no merged face of a
\* built mesh has type Air.
C5_AirNoGeometry ==
    \A c \in ChunkIds :
        /\ \A p \in Positions, d \in Directions :
             CellOf(c, p) = Air => ~shouldRenderFace(c, p[1], p[2], p[3], d)
        /\ \A k \in DOMAIN m_MergedFaces[c] : m_MergedFaces[c][k].type # Air

\* A mesh with faces was built of a chunk with an Air cell next to Water.
C5_Witness ==
    /\ m_MergedFaces[Meshed] # <<>>
    /\ \E q \in Cells, d \in Directions :
         /\ CellOf(Meshed, q) = Air
         /\ NeighborType(Meshed, q, d) = Water

\* C6: for a non-Air voxel of type C whose neighbor in the direction has
\* type N (across chunk boundaries, Air when nothing is linked),
\* shouldRenderFace is true exactly when N is Air, Water or Leaves and
\* N differs from C.
C6_FaceVisibility ==
    \A c \in ChunkIds, q \in Cells, d \in Directions :
        CellOf(c, q) # Air =>
            (shouldRenderFace(c, q[1], q[2], q[3], d)
               <=> (NeighborType(c, q, d) \in Transparent
                      /\ NeighborType(c, q, d) # CellOf(c, q)))

\* Water facing Leaves across a chunk boundary: the face is drawn.
C6_Witness ==
    \E c \in ChunkIds, q \in Cells, d \in Directions :
        /\ VecAdd(q, DirVec(d)) \notin Cells
        /\ CellOf(c, q) = Water
        /\ NeighborType(c, q, d) = Leaves
        /\ shouldRenderFace(c, q[1], q[2], q[3], d)

\* The naive face list of chunk c is the one of the chunk as it stands.
NaiveFresh(c) == m_Faces[c] = NaiveFaces(c, 0)
WorldOf(c, q) ==
    <<q[1] + m_Position[c][1] * CHUNK_SIZE_X, q[2], q[3] + m_Position[c][3] * CHUNK_SIZE_Z>>
\* How often the face of cell q in direction d is in the naive face list.
FaceCount(c, q, d) ==
    Cardinality({k \in DOMAIN m_Faces[c] :
        m_Faces[c][k].direction = d /\ m_Faces[c][k].position = WorldOf(c, q)})
\* The face between cell q and its neighbor in direction d, from both sides.
BetweenCount(c, q, d) ==
    FaceCount(c, q, d) + FaceCount(c, VecAdd(q, DirVec(d)), Opposite(d))

\* C7 as stated: between two adjacent voxels of different types, not both
\* Air, the naive face list holds the face exactly once.
C7_Original ==
    \A c \in ChunkIds, q \in Cells, d \in Directions :
        LET n == VecAdd(q, DirVec(d))
        IN  (NaiveFresh(c) /\ n \in Cells /\ CellOf(c, q) # CellOf(c, n)
               /\ (CellOf(c, q) # Air \/ CellOf(c, n) # Air))
              => BetweenCount(c, q, d) = 1

\* C7 amended: between two adjacent voxels of different types the naive
\* face list holds the face once when exactly one of the two is opaque or
\* one of them is Air, never when both are opaque, and twice (once from
\* each side) when they are Water and Leaves.
C7_FaceBetween ==
    \A c \in ChunkIds, q \in Cells, d \in Directions :
        LET n == VecAdd(q, DirVec(d))
            t1 == CellOf(c, q)
            t2 == CellOf(c, n)
        IN  (NaiveFresh(c) /\ n \in Cells /\ t1 # t2) =>
              BetweenCount(c, q, d) =
                CASE t1 \notin Transparent /\ t2 \notin Transparent -> 0
                  [] t1 \in {Water, Leaves} /\ t2 \in {Water, Leaves} -> 2
                  [] OTHER -> 1

\* A built face list of a chunk with an opaque voxel next to Water.
C7_Witness ==
    \E c \in ChunkIds, q \in Cells, d \in Directions :
        LET n == VecAdd(q, DirVec(d))
        IN  /\ NaiveFresh(c)
            /\ n \in Cells
            /\ CellOf(c, q) \notin Transparent
            /\ CellOf(c, n) = Water
            /\ BetweenCount(c, q, d) = 1

\* The cells <<v, u>> of the slice being scanned.
SliceVU == (0..(vSizeOf(scanDir) - 1)) \X (0..(uSizeOf(scanDir) - 1))
\* Merged face k of the scan covers cell <<v, u>>.
Covers(k, vu) ==
    /\ vu[1] >= scanAt[k][1] /\ vu[1] < scanAt[k][1] + scanFaces[k].size[2]
    /\ vu[2] >= scanAt[k][2] /\ vu[2] < scanAt[k][2] + scanFaces[k].size[1]
CoverCount(vu) == Cardinality({k \in DOMAIN scanFaces : Covers(k, vu)})
RECURSIVE AreaSum(_)
AreaSum(k) == IF k = 0 THEN 0 ELSE scanFaces[k].size[1] * scanFaces[k].size[2] + AreaSum(k - 1)
\* Two edge-adjacent cells of the filled mask are set and of the same type.
AdjacentSameType ==
    \E a \in SliceVU, b \in SliceVU :
        /\ (a[1] = b[1] /\ a[2] + 1 = b[2]) \/ (a[2] = b[2] /\ a[1] + 1 = b[1])
        /\ mask0[a[1]][a[2]] /\ mask0[b[1]][b[2]]
        /\ types[a[1]][a[2]] = types[b[1]][b[2]]

\* C8: the number of merged faces of a slice is at most the number of mask
\* cells counted for it, and the two are equal only when the slice has no
\* two edge-adjacent set cells of the same type (slice by slice, hence for
\* the totals over all slices and directions).
C8_MergedAtMostNaive ==
    scanPc = "done" =>
        /\ totalFacesAfterMerging <= totalFacesBeforeMerging
        /\ totalFacesAfterMerging = totalFacesBeforeMerging => ~AdjacentSameType
        /\ totalFacesAfterMerging = Len(scanFaces)
        /\ totalFacesBeforeMerging = TrueCount(mask0)

\* A finished scan that merged adjacent faces and still emitted several.
C8_Witness ==
    /\ scanPc = "done"
    /\ AdjacentSameType
    /\ totalFacesAfterMerging >= 2
    /\ totalFacesAfterMerging < totalFacesBeforeMerging

\* C9: the merged rectangles of a slice partition its mask: every set cell
\* is in exactly one rectangle once processed, no clear cell is in any,
\* and at the end the areas sum to the number of set cells.
C9_RectanglesPartitionMask ==
    scanPc \in {"scan", "done"} =>
        /\ \A vu \in SliceVU :
             CoverCount(vu) = IF mask0[vu[1]][vu[2]] /\ ~mask[vu[1]][vu[2]] THEN 1 ELSE 0
        /\ AreaSum(Len(scanFaces)) = TrueCount(mask0) - TrueCount(mask)
        /\ scanPc = "done" => AreaSum(Len(scanFaces)) = TrueCount(mask0)

\* A finished scan with a rectangle of more than one cell, a single cell
\* and a clear cell.
C9_Witness ==
    /\ scanPc = "done"
    /\ Len(scanFaces) >= 2
    /\ AreaSum(Len(scanFaces)) > Len(scanFaces)
    /\ \E vu \in SliceVU : ~mask0[vu[1]][vu[2]]

\* C10: the scan of a slice terminates: every merged rectangle has width
\* and height at least 1, every emission strictly decreases the number of
\* set mask cells, and when the scan has ended no set cell remains.
C10_ScanTerminates ==
    /\ [][Len(scanFaces') # Len(scanFaces) =>
            /\ Len(scanFaces') = Len(scanFaces) + 1
            /\ scanFaces'[Len(scanFaces')].size[1] >= 1
            /\ scanFaces'[Len(scanFaces')].size[2] >= 1
            /\ TrueCount(mask') < TrueCount(mask)]_vars
    /\ [](scanPc = "done" => TrueCount(mask) = 0)
    /\ <>(scanPc = "done")

\* A scan that ended after emitting from a mask with several set cells.
C10_Witness ==
    /\ scanPc = "done"
    /\ TrueCount(mask0) >= 3
    /\ Len(scanFaces) >= 2

\* ============================================================== VoxelGame
\* The int operators / and % of C++ for a positive divisor: the quotient is
\* truncated toward zero, the remainder has the sign of the dividend.
IntDiv(a, b) == IF a >= 0 THEN a \div b ELSE 0 - ((0 - a) \div b)
IntMod(a, b) == a - b * IntDiv(a, b)

\* Mutant: the chunk coordinate is the plain quotient.
ChunkCoord_Truncating(v, size) == IntDiv(v, size)

\* One axis of worldToChunkCoords.
ChunkCoord(v, size) ==
    IF v >= 0 THEN IntDiv(v, size) ELSE IntDiv(v - size + 1, size)

\* Mutant: the local coordinate is the plain remainder.
LocalCoord_Signed(v, size) == IntMod(v, size)

\* One axis of worldToLocalCoords.
LocalCoord(v, size) ==
    IF v >= 0 THEN IntMod(v, size) ELSE IntMod(IntMod(v, size) + size, size)

worldToChunkCoords(x, y, z) ==
    <<ChunkCoord(x, CHUNK_SIZE_X), ChunkCoord(y, CHUNK_SIZE_Y), ChunkCoord(z, CHUNK_SIZE_Z)>>

worldToLocalCoords(x, y, z) ==
    <<LocalCoord(x, CHUNK_SIZE_X), LocalCoord(y, CHUNK_SIZE_Y), LocalCoord(z, CHUNK_SIZE_Z)>>

\* A VoxelGame that holds no chunk yet.
InitWorld ==
    /\ chunkSize = SmallChunk
    /\ m_Chunks = <<>>
    /\ m_Position = <<>>
    /\ m_Voxels = <<>>
    /\ m_Empty = <<>>
    /\ m_Neighbors = <<>>
    /\ linked = <<>>
    /\ m_Faces = <<>>
    /\ m_MergedFaces = <<>>
    /\ m_Vertices = <<>>
    /\ m_Indices = <<>>
    /\ m_Mesh = <<>>
    /\ nWrites = 0
    /\ nLinks = 0

\* ------------------------------------- the conversions applied to a position
WorldRange == (0 - MaxWorld)..MaxWorld

InitCoords ==
    /\ InitWorld
    /\ ScanIdle
    /\ \E p \in WorldRange \X WorldRange \X WorldRange :
         last = [p |-> p, chunkDone |-> FALSE, chunk |-> <<0, 0, 0>>,
                 localDone |-> FALSE, local |-> <<0, 0, 0>>]

CallWorldToChunkCoords ==
    /\ ~last.chunkDone
    /\ last' = [last EXCEPT !.chunkDone = TRUE,
                            !.chunk = worldToChunkCoords(last.p[1], last.p[2], last.p[3])]
    /\ UNCHANGED <<chunkSize, chunkVars, meshVars, nWrites, nLinks, m_Chunks, scanVars>>

CallWorldToLocalCoords ==
    /\ ~last.localDone
    /\ last' = [last EXCEPT !.localDone = TRUE,
                            !.local = worldToLocalCoords(last.p[1], last.p[2], last.p[3])]
    /\ UNCHANGED <<chunkSize, chunkVars, meshVars, nWrites, nLinks, m_Chunks, scanVars>>

NextCoords ==
    \/ CallWorldToChunkCoords
    \/ CallWorldToLocalCoords

SpecCoords == InitCoords /\ [][NextCoords]_vars

\* ------------------------------------------------------- the world index
\* The mask 0x1FFFFF of getChunkKey.
KeyFieldMask == 2097151

\* The key of a chunk coordinate: the three 21-bit fields x & 0x1FFFFF,
\* y & 0x1FFFFF, z & 0x1FFFFF, which the code packs side by side at bits 0,
\* 21 and 42 of a uint64_t. On a two's complement int, v & 0x1FFFFF is v
\* modulo 2^21.
\* Mutant: the fields keep 20 bits, so the sign bit of a coordinate is lost.
getChunkKey_TwentyBits(x, y, z) ==
    <<x % ((KeyFieldMask + 1) \div 2), y % ((KeyFieldMask + 1) \div 2),
      z % ((KeyFieldMask + 1) \div 2)>>
getChunkKey(x, y, z) ==
    <<x % (KeyFieldMask + 1), y % (KeyFieldMask + 1), z % (KeyFieldMask + 1)>>

getChunk(chunkX, chunkY, chunkZ) ==
    LET key == getChunkKey(chunkX, chunkY, chunkZ)
    IN  IF key \in DOMAIN m_Chunks THEN m_Chunks[key] ELSE nullptr

\* The object `new Chunk` makes: chunks are numbered in order of creation.
NewChunk == Len(m_Position) + 1

\* A per-chunk table with the entry of a chunk just constructed, if one was.
Constructed(table, isNew, initial) == IF isNew THEN Append(table, initial) ELSE table

\* Mutant: the lookup of an existing chunk is skipped.
getOrCreateChunk_AlwaysNew(chunkX, chunkY, chunkZ) ==
    LET key == getChunkKey(chunkX, chunkY, chunkZ)
    IN  /\ Len(m_Position) < MaxChunks
        /\ m_Chunks' = MapPut(m_Chunks, key, NewChunk)
        /\ m_Position' = Append(m_Position, <<chunkX, chunkY, chunkZ>>)
        /\ m_Voxels' = Append(m_Voxels, NewVoxels)
        /\ m_Empty' = Append(m_Empty, m_EmptyDefault)
        /\ m_Neighbors' = Append(m_Neighbors, <<>>)
        /\ linked' = Append(linked, <<>>)
        /\ m_Faces' = Append(m_Faces, <<>>)
        /\ m_MergedFaces' = Append(m_MergedFaces, <<>>)
        /\ m_Vertices' = Append(m_Vertices, <<>>)
        /\ m_Indices' = Append(m_Indices, <<>>)
        /\ m_Mesh' = Append(m_Mesh, FALSE)
        /\ UNCHANGED <<nWrites, nLinks>>

\* VoxelGame::getOrCreateChunk; the chunk it returns is getChunk of the
\* coordinate afterwards.
getOrCreateChunk(chunkX, chunkY, chunkZ) ==
    LET key == getChunkKey(chunkX, chunkY, chunkZ)
        isNew == key \notin DOMAIN m_Chunks
    IN  /\ isNew => Len(m_Position) < MaxChunks
        /\ m_Chunks' = IF isNew THEN MapPut(m_Chunks, key, NewChunk) ELSE m_Chunks
        /\ m_Position' = Constructed(m_Position, isNew, <<chunkX, chunkY, chunkZ>>)
        /\ m_Voxels' = Constructed(m_Voxels, isNew, NewVoxels)
        /\ m_Empty' = Constructed(m_Empty, isNew, m_EmptyDefault)
        /\ m_Neighbors' = Constructed(m_Neighbors, isNew, <<>>)
        /\ linked' = Constructed(linked, isNew, <<>>)
        /\ m_Faces' = Constructed(m_Faces, isNew, <<>>)
        /\ m_MergedFaces' = Constructed(m_MergedFaces, isNew, <<>>)
        /\ m_Vertices' = Constructed(m_Vertices, isNew, <<>>)
        /\ m_Indices' = Constructed(m_Indices, isNew, <<>>)
        /\ m_Mesh' = Constructed(m_Mesh, isNew, FALSE)
        /\ UNCHANGED <<nWrites, nLinks>>

\* VoxelGame::setVoxel: getOrCreateChunk of the position's chunk, then
\* Chunk::setVoxel at the local coordinates.
VoxelGame_setVoxel(x, y, z, type) ==
    LET chunkCoords == worldToChunkCoords(x, y, z)
        key == getChunkKey(chunkCoords[1], chunkCoords[2], chunkCoords[3])
        isNew == key \notin DOMAIN m_Chunks
        chunk == IF isNew THEN NewChunk ELSE m_Chunks[key]
        localCoords == worldToLocalCoords(x, y, z)
        voxels == Constructed(m_Voxels, isNew, NewVoxels)
        empty == Constructed(m_Empty, isNew, m_EmptyDefault)
    IN  /\ nWrites < MaxWrites
        /\ isNew => Len(m_Position) < MaxChunks
        /\ nWrites' = nWrites + 1
        /\ m_Chunks' = IF isNew THEN MapPut(m_Chunks, key, NewChunk) ELSE m_Chunks
        /\ m_Position' = Constructed(m_Position, isNew, chunkCoords)
        /\ IF ~isValidPosition(localCoords[1], localCoords[2], localCoords[3])
           THEN m_Voxels' = voxels /\ m_Empty' = empty
           ELSE /\ m_Voxels' = [voxels EXCEPT
                      ![chunk][VoxelIndex(localCoords[1], localCoords[2], localCoords[3])] = type]
                /\ m_Empty' = [empty EXCEPT ![chunk] = IF type # Air THEN FALSE ELSE @]
        /\ m_Neighbors' = Constructed(m_Neighbors, isNew, <<>>)
        /\ linked' = Constructed(linked, isNew, <<>>)
        /\ m_Faces' = Constructed(m_Faces, isNew, <<>>)
        /\ m_MergedFaces' = Constructed(m_MergedFaces, isNew, <<>>)
        /\ m_Vertices' = Constructed(m_Vertices, isNew, <<>>)
        /\ m_Indices' = Constructed(m_Indices, isNew, <<>>)
        /\ m_Mesh' = Constructed(m_Mesh, isNew, FALSE)
        /\ UNCHANGED nLinks

\* Mutant: the chunk is read at the world coordinates.
VoxelGame_getVoxel_WorldCoords(x, y, z) ==
    LET chunkCoords == worldToChunkCoords(x, y, z)
        chunk == getChunk(chunkCoords[1], chunkCoords[2], chunkCoords[3])
    IN  IF chunk = nullptr THEN Air
        ELSE getVoxel(chunk, x, y, z)

\* VoxelGame::getVoxel.
VoxelGame_getVoxel(x, y, z) ==
    LET chunkCoords == worldToChunkCoords(x, y, z)
        chunk == getChunk(chunkCoords[1], chunkCoords[2], chunkCoords[3])
        localCoords == worldToLocalCoords(x, y, z)
    IN  IF chunk = nullptr THEN Air
        ELSE getVoxel(chunk, localCoords[1], localCoords[2], localCoords[3])

\* The world positions and chunk coordinates the calls are made with.
WorldX == (0 - WorldSpan * CHUNK_SIZE_X)..(WorldSpan * CHUNK_SIZE_X - 1)
WorldY == 0..(WorldSpan * CHUNK_SIZE_Y - 1)
WorldZ == (0 - WorldSpan * CHUNK_SIZE_Z)..(WorldSpan * CHUNK_SIZE_Z - 1)
ChunkCoords == ((0 - WorldSpan)..(WorldSpan - 1)) \X (0..(WorldSpan - 1))
                 \X ((0 - WorldSpan)..(WorldSpan - 1))
WorldTypes == {Air, Stone}

InitGame ==
    /\ InitWorld
    /\ ScanIdle
    /\ last = [op |-> "none", p |-> <<0, 0, 0>>, ret |-> nullptr]

\* The four calls on the world in any order, each logged with its result.
NextWorld ==
    \/ \E cc \in ChunkCoords :
         /\ getOrCreateChunk(cc[1], cc[2], cc[3])
         /\ last' = [op |-> "getOrCreateChunk", p |-> cc, ret |-> getChunk(cc[1], cc[2], cc[3])']
         /\ UNCHANGED <<scanVars, chunkSize>>
    \/ \E cc \in ChunkCoords :
         /\ last' = [op |-> "getChunk", p |-> cc, ret |-> getChunk(cc[1], cc[2], cc[3])]
         /\ UNCHANGED <<chunkSize, chunkVars, meshVars, nWrites, nLinks, m_Chunks, scanVars>>
    \/ \E x \in WorldX, y \in WorldY, z \in WorldZ, type \in WorldTypes :
         /\ VoxelGame_setVoxel(x, y, z, type)
         /\ last' = [op |-> "setVoxel", p |-> <<x, y, z>>, ret |-> type]
         /\ UNCHANGED <<scanVars, chunkSize>>
    \/ \E x \in WorldX, y \in WorldY, z \in WorldZ :
         /\ last' = [op |-> "getVoxel", p |-> <<x, y, z>>, ret |-> VoxelGame_getVoxel(x, y, z)]
         /\ UNCHANGED <<chunkSize, chunkVars, meshVars, nWrites, nLinks, m_Chunks, scanVars>>

SpecWorld == InitGame /\ [][NextWorld]_vars

\* C11: for every world position, positive, zero or negative on each axis,
\* chunk coordinate times chunk size plus local coordinate gives the
\* position back on every axis; -1 maps to chunk -1 and local size - 1.
C11_CoordsRoundTrip ==
    (last.chunkDone /\ last.localDone) =>
        \A i \in 1..3 :
            /\ last.chunk[i] * SizeVec[i] + last.local[i] = last.p[i]
            /\ last.p[i] = 0 - 1 =>
                 (last.chunk[i] = 0 - 1 /\ last.local[i] = SizeVec[i] - 1)

\* Both conversions applied to a position with x = -1, a negative y below
\* the first chunk and a positive z.
C11_Witness ==
    /\ last.chunkDone /\ last.localDone
    /\ last.p[1] = 0 - 1
    /\ last.p[2] < 0 - CHUNK_SIZE_Y
    /\ last.p[3] > CHUNK_SIZE_Z

\* C12: worldToChunkCoords is the floor of position / size on each axis,
\* not the truncated quotient, and worldToLocalCoords lies in [0, size),
\* also for negative multiples and negative non-multiples of the size.
C12_FloorAndModulo ==
    /\ last.chunkDone =>
         \A i \in 1..3 :
            /\ last.chunk[i] * SizeVec[i] <= last.p[i]
            /\ last.p[i] < (last.chunk[i] + 1) * SizeVec[i]
    /\ last.localDone =>
         \A i \in 1..3 : last.local[i] >= 0 /\ last.local[i] < SizeVec[i]

\* A negative non-multiple on x, where floor and truncation differ, and a
\* negative multiple on y.
C12_Witness ==
    /\ last.chunkDone /\ last.localDone
    /\ last.p[1] < 0 /\ IntMod(last.p[1], CHUNK_SIZE_X) # 0
    /\ last.chunk[1] # IntDiv(last.p[1], CHUNK_SIZE_X)
    /\ last.p[2] < 0 /\ IntMod(last.p[2], CHUNK_SIZE_Y) = 0

\* C13: the world index holds at most one chunk per coordinate triple;
\* getOrCreateChunk of a coordinate that has a chunk returns that same chunk
\* and leaves every chunk's voxels as they were; a chunk once created is
\* returned by getChunk of its coordinate in every later state.
C13_WorldIndex ==
    /\ [](\A c \in DOMAIN m_Position, d \in DOMAIN m_Position :
             m_Position[c] = m_Position[d] => c = d)
    /\ [](\A c \in DOMAIN m_Position :
             getChunk(m_Position[c][1], m_Position[c][2], m_Position[c][3]) = c)
    /\ [][\A cc \in ChunkCoords :
             getChunk(cc[1], cc[2], cc[3]) # nullptr =>
               /\ getChunk(cc[1], cc[2], cc[3])' = getChunk(cc[1], cc[2], cc[3])
               /\ (last'.op = "getOrCreateChunk" /\ last'.p = cc) =>
                    /\ last'.ret = getChunk(cc[1], cc[2], cc[3])
                    /\ m_Voxels' = m_Voxels]_vars

\* getOrCreateChunk called again on a chunk that was written, with another
\* chunk in the world.
C13_Witness ==
    /\ last.op = "getOrCreateChunk"
    /\ last.ret # nullptr
    /\ Len(m_Position) = MaxChunks
    /\ \E i \in DOMAIN m_Voxels[last.ret] : m_Voxels[last.ret][i] # Air

\* ------------------------------ a chunk of terrain and its six neighbors
\* The directions array of generateTestWorld's linking loop.
directions == <<(<<1, 0, 0>>), (<<-1, 0, 0>>), (<<0, 1, 0>>), (<<0, -1, 0>>),
                (<<0, 0, 1>>), (<<0, 0, -1>>)>>

\* Mutant: the directions array lacks Top and Bottom.
LinkFrom_SidesOnly(c, k, neighbors) ==
    LET horizontal == {d \in 1..Len(directions) : directions[d][2] = 0}
        pos(d) == VecAdd(m_Position[c], directions[d])
    IN  [key \in DOMAIN neighbors \cup
                 {NeighborKey(directions[d][1], directions[d][2], directions[d][3]) :
                    d \in {e \in horizontal :
                             getChunk(pos(e)[1], pos(e)[2], pos(e)[3]) # nullptr}} |->
           IF \E d \in horizontal :
                 /\ key = NeighborKey(directions[d][1], directions[d][2], directions[d][3])
                 /\ getChunk(pos(d)[1], pos(d)[2], pos(d)[3]) # nullptr
           THEN LET d == CHOOSE d \in horizontal :
                          key = NeighborKey(directions[d][1], directions[d][2], directions[d][3])
                IN  getChunk(pos(d)[1], pos(d)[2], pos(d)[3])
           ELSE neighbors[key]]

\* m_Neighbors of chunk c after the iterations k.. of the loop over the
\* directions: setNeighbor(dir, neighbor) for every neighbor that exists.
RECURSIVE LinkFrom(_, _, _)
LinkFrom(c, k, neighbors) ==
    IF k > Len(directions) THEN neighbors
    ELSE LET dir == directions[k]
             neighborPos == VecAdd(m_Position[c], dir)
             neighbor == getChunk(neighborPos[1], neighborPos[2], neighborPos[3])
         IN  LinkFrom(c, k + 1,
                      IF neighbor # nullptr
                      THEN MapPut(neighbors, NeighborKey(dir[1], dir[2], dir[3]), neighbor)
                      ELSE neighbors)

\* One iteration of generateTestWorld's loop over m_Chunks that links chunk c.
LinkNeighbors(c) ==
    LET existing == {k \in 1..Len(directions) :
                        LET p == VecAdd(m_Position[c], directions[k])
                        IN  getChunk(p[1], p[2], p[3]) # nullptr}
    IN  /\ m_Neighbors' = [m_Neighbors EXCEPT ![c] = LinkFrom(c, 1, @)]
        /\ linked' = [linked EXCEPT ![c] =
               [d \in DOMAIN @ \cup {directions[k] : k \in existing} |->
                  IF \E k \in existing : directions[k] = d
                  THEN getChunk(VecAdd(m_Position[c], d)[1], VecAdd(m_Position[c], d)[2],
                                VecAdd(m_Position[c], d)[3])
                  ELSE @[d]]]
        /\ nLinks' = nLinks + Cardinality(existing)
        /\ UNCHANGED <<m_Position, m_Voxels, m_Empty, nWrites, meshVars, m_Chunks>>

\* The world of the scenario: the chunk at the origin and the six chunks
\* around it, all holding terrain.
LinkPos == <<(<<0, 0, 0>>)>> \o directions
Center == CHOOSE c \in DOMAIN LinkPos : LinkPos[c] = <<0, 0, 0>>
TerrainTypes == {Grass, Stone}
Columns == (0..(CHUNK_SIZE_X - 1)) \X (0..(CHUNK_SIZE_Z - 1))
\* Height maps of solid terrain: every column at least one voxel high.
HeightMaps == [Columns -> 1..CHUNK_SIZE_Y]
\* The height map of the neighbor at offset dir whose columns along the
\* shared boundary are as high as those of the chunk: the mirror image
\* across that boundary.
MatchingHeights(hm, dir) ==
    [col \in Columns |->
        hm[<<IF dir[1] # 0 THEN CHUNK_SIZE_X - 1 - col[1] ELSE col[1],
             IF dir[3] # 0 THEN CHUNK_SIZE_Z - 1 - col[2] ELSE col[2]>>]]
\* The voxels setVoxel calls leave in a chunk of terrain of one type.
TerrainVoxels(hm, type) ==
    [i \in 0..(VoxelCount - 1) |->
        LET x == i % CHUNK_SIZE_X
            z == (i \div CHUNK_SIZE_X) % CHUNK_SIZE_Z
            y == i \div (CHUNK_SIZE_X * CHUNK_SIZE_Z)
        IN  IF y < hm[<<x, z>>] THEN type ELSE Air]

InitLink ==
    /\ chunkSize = SmallChunk
    /\ ScanIdle
    /\ last = [op |-> "none", faces |-> <<>>]
    /\ m_Position = LinkPos
    /\ m_Chunks = [key \in {getChunkKey(LinkPos[c][1], LinkPos[c][2], LinkPos[c][3]) :
                               c \in DOMAIN LinkPos} |->
                     CHOOSE c \in DOMAIN LinkPos :
                         getChunkKey(LinkPos[c][1], LinkPos[c][2], LinkPos[c][3]) = key]
    /\ \E hm \in HeightMaps, type \in TerrainTypes, around \in TerrainTypes :
         m_Voxels = [c \in DOMAIN LinkPos |->
                       IF c = Center THEN TerrainVoxels(hm, type)
                       ELSE TerrainVoxels(MatchingHeights(hm, LinkPos[c]), around)]
    /\ m_Empty = [c \in DOMAIN LinkPos |-> FALSE]
    /\ m_Neighbors = [c \in DOMAIN LinkPos |-> <<>>]
    /\ linked = [c \in DOMAIN LinkPos |-> <<>>]
    /\ m_Faces = [c \in DOMAIN LinkPos |-> <<>>]
    /\ m_MergedFaces = [c \in DOMAIN LinkPos |-> <<>>]
    /\ m_Vertices = [c \in DOMAIN LinkPos |-> <<>>]
    /\ m_Indices = [c \in DOMAIN LinkPos |-> <<>>]
    /\ m_Mesh = [c \in DOMAIN LinkPos |-> FALSE]
    /\ nWrites = 0
    /\ nLinks = 0

\* The chunks linked once each, in any order (the loop runs over an
\* unordered map); the chunk at the origin meshed at any time, its mesh
\* logged while it has no neighbor.
NextLink ==
    \/ \E c \in DOMAIN LinkPos :
         /\ linked[c] = <<>>
         /\ LinkNeighbors(c)
         /\ UNCHANGED <<chunkSize, last, scanVars>>
    \/ /\ BuildMesh(Center)
       /\ last' = IF DOMAIN m_Neighbors[Center] = {}
                  THEN [op |-> "buildMesh", faces |-> m_MergedFaces'[Center]]
                  ELSE last
       /\ UNCHANGED <<chunkSize, scanVars, m_Chunks>>

SpecLink == InitLink /\ [][NextLink]_vars

\* Merged face f of chunk c lies on the face of cell q in direction d.
FaceCovers(c, f, q, d) ==
    LET b == Basis(d)
        off == ChunkOffset(m_Position[c])
        ls == <<f.start[1] - off[1], f.start[2] - off[2], f.start[3] - off[3]>>
    IN  /\ f.direction = d
        /\ q[b[3] + 1] = ls[b[3] + 1]
        /\ q[b[1] + 1] >= ls[b[1] + 1] /\ q[b[1] + 1] < ls[b[1] + 1] + f.size[1]
        /\ q[b[2] + 1] >= ls[b[2] + 1] /\ q[b[2] + 1] < ls[b[2] + 1] + f.size[2]
\* The merged faces of chunk c are those of the chunk as it stands.
MeshFresh(c) == m_Mesh[c] /\ m_MergedFaces[c] = GreedyFaces(c)

\* C14: a non-Air voxel on the chunk boundary with no neighbor linked in the
\* outward direction has shouldRenderFace true for that direction, whatever
\* its type, and a mesh built in that state holds the boundary face.
C14_UnlinkedBoundaryFace ==
    \A c \in ChunkIds, q \in Cells, d \in Directions :
        (/\ CellOf(c, q) # Air
         /\ VecAdd(q, DirVec(d)) \notin Cells
         /\ LinkedChunk(c, DirVec(d)) = nullptr)
        => /\ shouldRenderFace(c, q[1], q[2], q[3], d)
           /\ MeshFresh(c) =>
                \E k \in DOMAIN m_MergedFaces[c] :
                    /\ FaceCovers(c, m_MergedFaces[c][k], q, d)
                    /\ m_MergedFaces[c][k].type = CellOf(c, q)

\* A fresh mesh of a chunk linked on one side, with Water on an unlinked
\* boundary and an opaque voxel beside it.
C14_Witness ==
    /\ MeshFresh(Meshed)
    /\ nLinks > 0
    /\ \E q \in Cells, d \in Directions :
         /\ CellOf(Meshed, q) = Water
         /\ VecAdd(q, DirVec(d)) \notin Cells
         /\ LinkedChunk(Meshed, DirVec(d)) = nullptr
    /\ \E q \in Cells : CellOf(Meshed, q) \notin Transparent

\* The cell faces of the chunk at the origin that a list of merged faces covers.
CoveredBy(faces) ==
    {qd \in Cells \X Directions :
        \E k \in DOMAIN faces : FaceCovers(Center, faces[k], qd[1], qd[2])}
\* The boundary faces of the chunk at the origin whose neighbor voxel, looked
\* up in the world, is opaque.
HiddenByNeighbors ==
    {qd \in Cells \X Directions :
        LET p == VecAdd(qd[1], DirVec(qd[2]))
        IN  /\ CellOf(Center, qd[1]) # Air
            /\ p \notin Cells
            /\ VoxelGame_getVoxel(p[1], p[2], p[3]) \notin Transparent}

C16_MeshOnlyInBuildMesh ==
    [][(nWrites' # nWrites \/ nLinks' # nLinks) =>
          /\ m_MergedFaces' = m_MergedFaces
          /\ m_Vertices' = m_Vertices
          /\ m_Indices' = m_Indices
          /\ m_Mesh' = m_Mesh]_vars

\* A built mesh with faces that is no longer the mesh of the chunk as it
\* stands, with the neighbor linked.
C16_Witness ==
    /\ m_Mesh[Meshed]
    /\ m_MergedFaces[Meshed] # <<>>
    /\ m_MergedFaces[Meshed] # GreedyFaces(Meshed)
    /\ nLinks > 0

\* C17: a mesh of n merged faces has 4n vertices and 6n indices; face k
\* (from 0) contributes the indices 4k, 4k+1, 4k+2, 4k, 4k+2, 4k+3, all
\* below the vertex count and pointing at the four vertices of face k.
C17_VertexIndexLayout ==
    \A c \in ChunkIds :
        LET n == Len(m_MergedFaces[c])
        IN  m_Mesh[c] =>
              /\ Len(m_Vertices[c]) = 4 * n
              /\ Len(m_Indices[c]) = 6 * n
              /\ \A k \in 0..(n - 1) :
                   /\ SubSeq(m_Indices[c], 6 * k + 1, 6 * k + 6)
                        = <<4 * k, 4 * k + 1, 4 * k + 2, 4 * k, 4 * k + 2, 4 * k + 3>>
                   /\ SubSeq(m_Vertices[c], 4 * k + 1, 4 * k + 4)
                        = generateMergedFaceVertices(m_MergedFaces[c][k + 1])
              /\ \A i \in DOMAIN m_Indices[c] :
                   /\ m_Indices[c][i] >= 0
                   /\ m_Indices[c][i] < Len(m_Vertices[c])

\* A mesh of several merged faces, one of them larger than a cell.
C17_Witness ==
    /\ m_Mesh[Meshed]
    /\ Len(m_MergedFaces[Meshed]) > 1
    /\ \E k \in DOMAIN m_MergedFaces[Meshed] :
         m_MergedFaces[Meshed][k].size[1] * m_MergedFaces[Meshed][k].size[2] > 1

\* ------------------------------------------------------------- rendering
\* Chunk::render, VoxelRenderer::render and Mesh::render: the draw calls one
\* render of chunk c issues, each by the index count it is given. The chunk
\* has a renderer from its constructor and the renderer a shader from init;
\* nothing is drawn for a chunk flagged empty or a renderer without a mesh.
DrawCalls(c) ==
    IF m_Empty[c] THEN <<>>
    ELSE IF ~m_Mesh[c] THEN <<>>
    ELSE <<Len(m_Indices[c])>>

NoRender == [op |-> "none", drawCalls |-> <<>>]

Render(c) ==
    /\ last' = [op |-> "render", drawCalls |-> DrawCalls(c)]
    /\ UNCHANGED <<chunkVars, meshVars, nWrites, nLinks>>

\* The chunk at the origin among its six neighbors: either terrain like
\* its neighbors, or never written to.
InitRender ==
    /\ chunkSize = SmallChunk
    /\ ScanIdle
    /\ last = NoRender
    /\ m_Position = LinkPos
    /\ m_Chunks = [key \in {getChunkKey(LinkPos[c][1], LinkPos[c][2], LinkPos[c][3]) :
                               c \in DOMAIN LinkPos} |->
                     CHOOSE c \in DOMAIN LinkPos :
                         getChunkKey(LinkPos[c][1], LinkPos[c][2], LinkPos[c][3]) = key]
    /\ \E hm \in HeightMaps, type \in TerrainTypes, written \in BOOLEAN :
         /\ m_Voxels = [c \in DOMAIN LinkPos |->
                          IF c # Center THEN TerrainVoxels(MatchingHeights(hm, LinkPos[c]), type)
                          ELSE IF written THEN TerrainVoxels(hm, type)
                          ELSE NewVoxels]
         /\ m_Empty = [c \in DOMAIN LinkPos |->
                          IF c = Center /\ ~written THEN m_EmptyDefault ELSE FALSE]
    /\ m_Neighbors = [c \in DOMAIN LinkPos |-> <<>>]
    /\ linked = [c \in DOMAIN LinkPos |-> <<>>]
    /\ m_Faces = [c \in DOMAIN LinkPos |-> <<>>]
    /\ m_MergedFaces = [c \in DOMAIN LinkPos |-> <<>>]
    /\ m_Vertices = [c \in DOMAIN LinkPos |-> <<>>]
    /\ m_Indices = [c \in DOMAIN LinkPos |-> <<>>]
    /\ m_Mesh = [c \in DOMAIN LinkPos |-> FALSE]
    /\ nWrites = 0
    /\ nLinks = 0

\* The chunk at the origin linked, cleared cell by cell, meshed and
\* rendered; `last` holds the draw calls of a render until the next call.
NextRender ==
    \/ /\ linked[Center] = <<>>
       /\ LinkNeighbors(Center)
       /\ last' = NoRender
       /\ UNCHANGED <<scanVars, chunkSize>>
    \/ \E p \in Cells :
         /\ SetVoxel(Center, p[1], p[2], p[3], Air)
         /\ last' = NoRender
         /\ UNCHANGED <<chunkSize, scanVars, m_Chunks>>
    \/ /\ BuildMesh(Center)
       /\ last' = NoRender
       /\ UNCHANGED <<chunkSize, scanVars, m_Chunks>>
    \/ /\ Render(Center)
       /\ UNCHANGED <<chunkSize, scanVars, m_Chunks>>

SpecRender == InitRender /\ [][NextRender]_vars

\* The chunk at the origin holds no Air and has an opaque voxel behind
\* every boundary face.
FullyEnclosed ==
    /\ \A p \in Cells : getVoxel(Center, p[1], p[2], p[3]) # Air
    /\ \A p \in Cells, d \in Directions :
         ~shouldRenderFace(Center, p[1], p[2], p[3], d)

AllAir == \A p \in Cells : getVoxel(Center, p[1], p[2], p[3]) = Air

\* C18: a chunk with no face to emit, all Air or fully enclosed by opaque
\* voxels with its neighbors linked, is meshed into empty vertex and index
\* buffers, and a render of it issues no draw call.
C18_ZeroFacesNoDrawCall ==
    (m_Mesh[Center] /\ MeshFresh(Center) /\ (AllAir \/ FullyEnclosed)) =>
        /\ m_MergedFaces[Center] = <<>>
        /\ m_Vertices[Center] = <<>>
        /\ m_Indices[Center] = <<>>
        /\ last.op = "render" => last.drawCalls = <<>>

\* The part of C18 the code keeps: the buffers of such a chunk are empty,
\* and a render of it draws nothing or draws zero indices.
C18_EmptyBuffers ==
    (m_Mesh[Center] /\ MeshFresh(Center) /\ (AllAir \/ FullyEnclosed)) =>
        /\ m_MergedFaces[Center] = <<>>
        /\ m_Vertices[Center] = <<>>
        /\ m_Indices[Center] = <<>>
        /\ last.op = "render" => last.drawCalls \in {<<>>, <<0>>}

\* A fully enclosed chunk, meshed and rendered with a draw call.
C18_EnclosedDrawn ==
    /\ m_Mesh[Center] /\ MeshFresh(Center) /\ FullyEnclosed
    /\ last.op = "render" /\ last.drawCalls = <<0>>

\* A chunk never written to, meshed and rendered without a draw call.
C18_UntouchedSkipped ==
    /\ m_Mesh[Center] /\ MeshFresh(Center) /\ AllAir /\ m_Empty[Center]
    /\ last.op = "render" /\ last.drawCalls = <<>>

\* ------------------------------------------------------ one layer of voxels
\* The voxels setVoxel calls leave in a chunk when every (x, z) at height y
\* is written with one type and nothing else is written.
LayerVoxels(y, type) ==
    [i \in 0..(VoxelCount - 1) |->
        IF \E x \in 0..(CHUNK_SIZE_X - 1), z \in 0..(CHUNK_SIZE_Z - 1) :
               i = VoxelIndex(x, y, z)
        THEN type ELSE Air]

LayerTypes == {Grass, Water}

InitLayer ==
    /\ chunkSize = SmallChunk
    /\ ScanIdle
    /\ last = NoCall
    /\ m_Position = [c \in ChunkIds |-> ChunkPos[c]]
    /\ \E y \in 0..(CHUNK_SIZE_Y - 1), type \in LayerTypes :
         m_Voxels = [c \in ChunkIds |-> IF c = Meshed THEN LayerVoxels(y, type) ELSE NewVoxels]
    /\ m_Empty = [c \in ChunkIds |-> IF c = Meshed THEN FALSE ELSE m_EmptyDefault]
    /\ m_Neighbors = [c \in ChunkIds |-> <<>>]
    /\ linked = [c \in ChunkIds |-> <<>>]
    /\ m_Faces = [c \in ChunkIds |-> <<>>]
    /\ m_MergedFaces = [c \in ChunkIds |-> <<>>]
    /\ m_Vertices = [c \in ChunkIds |-> <<>>]
    /\ m_Indices = [c \in ChunkIds |-> <<>>]
    /\ m_Mesh = [c \in ChunkIds |-> FALSE]
    /\ nWrites = 0
    /\ nLinks = 0
    /\ m_Chunks = <<>>

\* The layered chunk written further, linked to the chunk beside it and
\* meshed, in any order.
NextLayer ==
    \/ \E p \in Cells, type \in LayerTypes \cup {Air} :
           SetVoxel(Meshed, p[1], p[2], p[3], type) /\ UNCHANGED <<chunkSize, last, scanVars, m_Chunks>>
    \/ \E direction \in AxisDirs :
           SetNeighbor(Meshed, direction, Beside) /\ UNCHANGED <<chunkSize, last, scanVars, m_Chunks>>
    \/ BuildMesh(Meshed) /\ UNCHANGED <<chunkSize, last, scanVars, m_Chunks>>

SpecLayer == InitLayer /\ [][NextLayer]_vars

GrassLayer == \E y \in 0..(CHUNK_SIZE_Y - 1) : m_Voxels[Meshed] = LayerVoxels(y, Grass)

FacesToward(c, direction) ==
    {k \in DOMAIN m_MergedFaces[c] : m_MergedFaces[c][k].direction = direction}

CavityChunk == <<CavitySize, CavitySize, CavitySize>>

\* The voxels setVoxel calls leave in a chunk filled with one type, and in
\* one filled but for the cell hole.
FilledVoxels(type) == [i \in 0..(VoxelCount - 1) |-> type]
CavityVoxels(hole, type) ==
    [i \in 0..(VoxelCount - 1) |->
        IF i = VoxelIndex(hole[1], hole[2], hole[3]) THEN Air ELSE type]

\* What the six chunks around are filled with.
AroundTypes == {Stone, Water}

\* A chunk of Stone with one Air cell, anywhere, among six filled chunks.
InitCavity ==
    /\ chunkSize = CavityChunk
    /\ ScanIdle
    /\ last = NoCall
    /\ m_Position = LinkPos
    /\ m_Chunks = [key \in {getChunkKey(LinkPos[c][1], LinkPos[c][2], LinkPos[c][3]) :
                               c \in DOMAIN LinkPos} |->
                     CHOOSE c \in DOMAIN LinkPos :
                         getChunkKey(LinkPos[c][1], LinkPos[c][2], LinkPos[c][3]) = key]
    /\ \E hole \in Cells, around \in AroundTypes :
         m_Voxels = [c \in DOMAIN LinkPos |->
                       IF c = Center THEN CavityVoxels(hole, Stone)
                       ELSE FilledVoxels(around)]
    /\ m_Empty = [c \in DOMAIN LinkPos |-> FALSE]
    /\ m_Neighbors = [c \in DOMAIN LinkPos |-> <<>>]
    /\ linked = [c \in DOMAIN LinkPos |-> <<>>]
    /\ m_Faces = [c \in DOMAIN LinkPos |-> <<>>]
    /\ m_MergedFaces = [c \in DOMAIN LinkPos |-> <<>>]
    /\ m_Vertices = [c \in DOMAIN LinkPos |-> <<>>]
    /\ m_Indices = [c \in DOMAIN LinkPos |-> <<>>]
    /\ m_Mesh = [c \in DOMAIN LinkPos |-> FALSE]
    /\ nWrites = 0
    /\ nLinks = 0

\* The chunk at the origin linked to its neighbors once and meshed at any
\* time.
NextCavity ==
    \/ /\ linked[Center] = <<>>
       /\ LinkNeighbors(Center)
       /\ UNCHANGED <<chunkSize, last, scanVars>>
    \/ BuildMesh(Center) /\ UNCHANGED <<chunkSize, last, scanVars, m_Chunks>>

SpecCavity == InitCavity /\ [][NextCavity]_vars

\* The mask cells buildGreedyMesh sets over all directions and slices: the
\* faces it counts before merging.
NeededFaces(c) ==
    {a \in Cells \X Directions : shouldRenderFace(c, a[1][1], a[1][2], a[1][3], a[2])}

Interior(p) ==
    /\ 0 < p[1] /\ p[1] < CHUNK_SIZE_X - 1
    /\ 0 < p[2] /\ p[2] < CHUNK_SIZE_Y - 1
    /\ 0 < p[3] /\ p[3] < CHUNK_SIZE_Z - 1

\* The chunk at the origin is Stone but for the interior cell hole.
HasCavity(hole) == Interior(hole) /\ m_Voxels[Center] = CavityVoxels(hole, Stone)

\* All six neighbors are linked and there is an opaque voxel behind every
\* boundary face of the chunk at the origin.
OpaqueAround ==
    /\ DOMAIN linked[Center] = {directions[k] : k \in DOMAIN directions}
    /\ \A p \in Cells, d \in Directions :
         LET n == FaceNeighbor(p[1], p[2], p[3], d)
         IN  n \notin Cells =>
               ~isVoxelTransparent(getVoxelWorldSpace(Center, n[1], n[2], n[3]))

\* C19 as stated, with no word on the neighbors: a Stone chunk with one
\* interior Air cell has 6 faces before merging and 6 merged faces, each
\* of size (1,1).
C19_Original ==
    \A hole \in Cells :
        (MeshFresh(Center) /\ HasCavity(hole)) =>
            /\ Cardinality(NeededFaces(Center)) = 6
            /\ Len(m_MergedFaces[Center]) = 6
            /\ \A k \in DOMAIN m_MergedFaces[Center] :
                 m_MergedFaces[Center][k].size = <<1, 1>>

\* C19, amended: a Stone chunk with one interior Air cell whose six
\* neighbors are linked and opaque along the shared boundaries has 6 faces
\* before merging and 6 merged faces, each of size (1,1): one per
\* direction, the Stone face looking into the cavity.
C19_EnclosedCavity ==
    \A hole \in Cells :
        (MeshFresh(Center) /\ HasCavity(hole) /\ OpaqueAround) =>
            /\ Cardinality(NeededFaces(Center)) = 6
            /\ Len(m_MergedFaces[Center]) = 6
            /\ \A direction \in Directions :
                 Cardinality(FacesToward(Center, direction)) = 1
            /\ \A k \in DOMAIN m_MergedFaces[Center] :
                 LET f == m_MergedFaces[Center][k]
                 IN  /\ f.size = <<1, 1>>
                     /\ f.type = Stone
                     /\ VecAdd(f.start, DirVec(f.direction)) = hole

\* The cavity chunk meshed among six linked chunks of Stone.
C19_Witness ==
    /\ MeshFresh(Center) /\ OpaqueAround
    /\ \E hole \in Cells : HasCavity(hole)

\* ------------------------------------------------------------- rebuilding
RebuildTypes == {Air, Stone, Water}

\* The buffers a buildMesh leaves in the renderer of chunk c.
Buffers(c) == <<m_MergedFaces[c], m_Vertices[c], m_Indices[c]>>

\* Writes, links and builds in any order; `last` tells whether the last
\* call was a buildMesh, whether the call before it was one too, and the
\* buffers that one had left.
NextRebuild ==
    \/ \E c \in ChunkIds, p \in Cells, type \in RebuildTypes :
         /\ SetVoxel(c, p[1], p[2], p[3], type)
         /\ last' = [op |-> "setVoxel", again |-> FALSE, before |-> <<>>]
         /\ UNCHANGED <<chunkSize, scanVars, m_Chunks>>
    \/ \E direction \in AxisDirs :
         /\ SetNeighbor(Meshed, direction, Beside)
         /\ last' = [op |-> "setNeighbor", again |-> FALSE, before |-> <<>>]
         /\ UNCHANGED <<chunkSize, scanVars, m_Chunks>>
    \/ /\ BuildMesh(Meshed)
       /\ last' = [op |-> "buildMesh", again |-> last.op = "buildMesh",
                   before |-> IF last.op = "buildMesh" THEN Buffers(Meshed) ELSE <<>>]
       /\ UNCHANGED <<chunkSize, scanVars, m_Chunks>>

SpecRebuild == Init /\ [][NextRebuild]_vars

\* C21: what a buildMesh leaves is made of the chunk's voxels and linked
\* neighbors at the time of the call alone, with nothing of an earlier
\* build in it: a second buildMesh with no call in between leaves the same
\* buffers, and a buildMesh of a chunk set back to Air leaves them empty.
C21_RebuildsWholesale ==
    last.op = "buildMesh" =>
        /\ m_MergedFaces[Meshed] = GreedyFaces(Meshed)
        /\ m_Vertices[Meshed] = BuildVertices(GreedyFaces(Meshed), 1)
        /\ m_Indices[Meshed] = BuildIndices(GreedyFaces(Meshed), 1)
        /\ last.again => Buffers(Meshed) = last.before
        /\ (\A p \in Cells : getVoxel(Meshed, p[1], p[2], p[3]) = Air) =>
              Buffers(Meshed) = <<(<<>>), (<<>>), (<<>>)>>

\* A second buildMesh in a row over a mesh with faces.
C21_Witness ==
    /\ last.op = "buildMesh"
    /\ last.again
    /\ m_MergedFaces[Meshed] # <<>>

\* A buildMesh of a chunk whose voxels were written and set back to Air.
C21_BuiltAfterClearing ==
    /\ last.op = "buildMesh"
    /\ \A p \in Cells : getVoxel(Meshed, p[1], p[2], p[3]) = Air
    /\ ~m_Empty[Meshed]

\* ------------------------------------------------- a chunk away from origin
\* Chunk coordinates of the chunk that is meshed, per axis.
OffsetCoords == {-1, 0, 1}
OffsetTypes == {Air, Stone, Water}

\* One chunk, constructed at any of the chunk coordinates.
InitOffset ==
    /\ chunkSize = SmallChunk
    /\ ScanIdle
    /\ last = NoCall
    /\ \E pos \in OffsetCoords \X OffsetCoords \X OffsetCoords : m_Position = <<pos>>
    /\ m_Voxels = <<NewVoxels>>
    /\ m_Empty = <<m_EmptyDefault>>
    /\ m_Neighbors = <<(<<>>)>>
    /\ linked = <<(<<>>)>>
    /\ m_Faces = <<(<<>>)>>
    /\ m_MergedFaces = <<(<<>>)>>
    /\ m_Vertices = <<(<<>>)>>
    /\ m_Indices = <<(<<>>)>>
    /\ m_Mesh = <<FALSE>>
    /\ nWrites = 0
    /\ nLinks = 0
    /\ m_Chunks = <<>>

NextOffset ==
    \/ \E c \in DOMAIN m_Position, p \in Cells, type \in OffsetTypes :
         SetVoxel(c, p[1], p[2], p[3], type) /\ UNCHANGED <<chunkSize, last, scanVars, m_Chunks>>
    \/ \E c \in DOMAIN m_Position :
         BuildMesh(c) /\ UNCHANGED <<chunkSize, last, scanVars, m_Chunks>>

SpecOffset == InitOffset /\ [][NextOffset]_vars

\* The world position of local cell (0, 0, 0) of chunk c: chunk coordinate
\* times chunk size on every axis, the inverse of worldToChunkCoords and
\* worldToLocalCoords.
WorldOrigin(c) ==
    <<m_Position[c][1] * CHUNK_SIZE_X, m_Position[c][2] * CHUNK_SIZE_Y,
      m_Position[c][3] * CHUNK_SIZE_Z>>

\* The cell of chunk c at world position p, if any, is the lowest corner of
\* the rectangle of merged face f: the face of every cell of the rectangle
\* grown from it is needed and of the type of f.
StartsAtCorner(c, f, p) ==
    LET o == WorldOrigin(c)
        q == <<p[1] - o[1], p[2] - o[2], p[3] - o[3]>>
        b == Basis(f.direction)
        At(du, dv) == [i \in 1..3 |-> q[i] + (IF i = b[1] + 1 THEN du ELSE 0)
                                           + (IF i = b[2] + 1 THEN dv ELSE 0)]
    IN  \A du \in 0..(f.size[1] - 1), dv \in 0..(f.size[2] - 1) :
            /\ At(du, dv) \in Cells
            /\ shouldRenderFace(c, At(du, dv)[1], At(du, dv)[2], At(du, dv)[3], f.direction)
            /\ getVoxel(c, At(du, dv)[1], At(du, dv)[2], At(du, dv)[3]) = f.type

\* C22: the start of every merged face is the world position, on all three
\* axes, of the lowest corner of its rectangle: local cell plus chunk
\* coordinate times chunk size, for a chunk at any chunk coordinate.
C22_StartInWorldSpace ==
    \A c \in DOMAIN m_Position :
        MeshFresh(c) =>
            \A k \in DOMAIN m_MergedFaces[c] :
                StartsAtCorner(c, m_MergedFaces[c][k], m_MergedFaces[c][k].start)

\* The part of C22 the code keeps: the start is in world space on x and z,
\* and on y for a chunk whose chunk coordinate y is 0; on y it is local
\* otherwise.
C22_StartLocalOnY ==
    \A c \in DOMAIN m_Position :
        MeshFresh(c) =>
            \A k \in DOMAIN m_MergedFaces[c] :
                LET f == m_MergedFaces[c][k]
                IN  StartsAtCorner(c, f, <<f.start[1],
                                           f.start[2] + m_Position[c][2] * CHUNK_SIZE_Y,
                                           f.start[3]>>)

\* A meshed chunk with faces whose chunk coordinate y is not 0.
C22_RaisedChunkMeshed ==
    \E c \in DOMAIN m_Position :
        /\ MeshFresh(c)
        /\ m_Position[c][2] # 0
        /\ m_Position[c][1] # 0
        /\ m_MergedFaces[c] # <<>>

\* ------------------------------------------------------------ slice basis
\* The chunk cell of mask cell (v, u) of slice w, as the engine's slice
\* convention has it.
SliceCell(direction, u, v, w) ==
    CASE direction \in {Front, Back} -> <<u, v, w>>
      [] direction \in {Top, Bottom} -> <<u, w, v>>
      [] direction \in {Right, Left} -> <<w, v, u>>

\* C23: the basis of every direction is a permutation of the axes: Front
\* and Back scan u = x, v = y, w = z, Top and Bottom u = x, v = z, w = y,
\* Right and Left u = z, v = y, w = x. Mask cell (v, u) of slice w is filled
\* from the chunk cell this gives, and (u, v, w) over the loop ranges meets
\* every chunk cell once.
C23_SliceBasis ==
    /\ {Basis(scanDir)[i] : i \in 1..3} = {0, 1, 2}
    /\ \A cell \in Cells :
         Cardinality({uvw \in (0..(uSizeOf(scanDir) - 1)) \X (0..(vSizeOf(scanDir) - 1))
                                 \X (0..(wSizeOf(scanDir) - 1)) :
                         UVWtoXYZ(scanDir, uvw[1], uvw[2], uvw[3]) = cell}) = 1
    /\ scanPc \in {"scan", "done"} =>
         /\ DOMAIN mask0 = 0..(vSizeOf(scanDir) - 1)
         /\ \A v \in DOMAIN mask0 :
              /\ DOMAIN mask0[v] = 0..(uSizeOf(scanDir) - 1)
              /\ \A u \in DOMAIN mask0[v] :
                   LET cell == SliceCell(scanDir, u, v, scanW)
                   IN  /\ cell \in DOMAIN sliceInput
                       /\ mask0[v][u] = (sliceInput[cell] # Air)
                       /\ mask0[v][u] => types[v][u] = sliceInput[cell]

\* A Top slice filled from a pattern with a face needed at one cell and
\* not at another.
C23_Witness ==
    /\ scanPc = "done"
    /\ scanDir = Top
    /\ \E a \in DOMAIN sliceInput, b \in DOMAIN sliceInput :
         sliceInput[a] = Air /\ sliceInput[b] # Air

\* The cells of chunk c the rectangle of merged face f lies on.
RectCells(c, f) == {q \in Cells : FaceCovers(c, f, q, f.direction)}

\* C24: in the chunk state a mesh was built from, every cell of the
\* rectangle of every merged face needs its face in the direction of the
\* merged face and holds a voxel of the merged face's type; the rectangle
\* lies within the chunk.
C24_RectangleCellsMatch ==
    last.op = "buildMesh" =>
        \A k \in DOMAIN m_MergedFaces[Meshed] :
            LET f == m_MergedFaces[Meshed][k]
            IN  /\ Cardinality(RectCells(Meshed, f)) = f.size[1] * f.size[2]
                /\ \A q \in RectCells(Meshed, f) :
                     /\ shouldRenderFace(Meshed, q[1], q[2], q[3], f.direction)
                     /\ getVoxel(Meshed, q[1], q[2], q[3]) = f.type

\* A mesh just built with a merged face of several cells and one of a
\* single cell.
C24_Witness ==
    /\ last.op = "buildMesh"
    /\ \E k \in DOMAIN m_MergedFaces[Meshed], j \in DOMAIN m_MergedFaces[Meshed] :
         /\ m_MergedFaces[Meshed][k].size[1] * m_MergedFaces[Meshed][k].size[2] > 1
         /\ m_MergedFaces[Meshed][j].size = <<1, 1>>

\* C25: a rectangle is emitted from the first set cell in row-major order
\* (v outer, u inner), grown along u and then along v as far as it goes:
\* the cell right of its first row is out of the slice, clear or of another
\* type, and the row below it is out of the slice or has, within the
\* rectangle's columns, a cell that is clear or of another type.
C25_GrownWidthThenHeight ==
    [][Len(scanFaces') # Len(scanFaces) =>
          LET f == scanFaces'[Len(scanFaces')]
              width == f.size[1]
              height == f.size[2]
              Matches(v, u) == mask[v][u] /\ types[v][u] = f.type
          IN  /\ scanAt'[Len(scanAt')] = <<sv, su>>
              /\ \A vu \in SliceVU :
                   (vu[1] < sv \/ (vu[1] = sv /\ vu[2] < su)) => ~mask[vu[1]][vu[2]]
              /\ mask[sv][su] /\ f.type = types[sv][su]
              /\ su + width <= uSizeOf(scanDir) /\ sv + height <= vSizeOf(scanDir)
              /\ \A du \in 0..(width - 1) : Matches(sv, su + du)
              /\ su + width < uSizeOf(scanDir) => ~Matches(sv, su + width)
              /\ \A dv \in 0..(height - 1), du \in 0..(width - 1) : Matches(sv + dv, su + du)
              /\ sv + height < vSizeOf(scanDir) =>
                   \E du \in 0..(width - 1) : ~Matches(sv + height, su + du)]_vars

\* A finished scan with a rectangle two rows high that stopped growing in
\* width at a set cell of another type.
C25_Witness ==
    /\ scanPc = "done"
    /\ \E k \in DOMAIN scanFaces :
         LET v == scanAt[k][1]
             u == scanAt[k][2]
         IN  /\ scanFaces[k].size[2] > 1
             /\ u + scanFaces[k].size[1] < uSizeOf(scanDir)
             /\ mask0[v][u + scanFaces[k].size[1]]
             /\ types[v][u + scanFaces[k].size[1]] # scanFaces[k].type


\* ------------------------------------------- the keys of the world index
\* The ends of the range the comment of getChunkKey gives for a coordinate:
\* -1,048,576 to 1,048,575.
MaxKeyCoord == KeyFieldMask \div 2
MinKeyCoord == 0 - MaxKeyCoord - 1

\* Chunk coordinates at both ends of the range and just below zero.
KeyEdge == {MinKeyCoord, 0 - 1, MaxKeyCoord}
KeyCoords == KeyEdge \X KeyEdge \X KeyEdge

\* getOrCreateChunk and getChunk at coordinates of KeyCoords, each logged
\* with the chunk it returns.
NextKeys ==
    \/ \E cc \in KeyCoords :
         /\ getOrCreateChunk(cc[1], cc[2], cc[3])
         /\ last' = [op |-> "getOrCreateChunk", p |-> cc, ret |-> getChunk(cc[1], cc[2], cc[3])']
         /\ UNCHANGED <<scanVars, chunkSize>>
    \/ \E cc \in KeyCoords :
         /\ last' = [op |-> "getChunk", p |-> cc, ret |-> getChunk(cc[1], cc[2], cc[3])]
         /\ UNCHANGED <<chunkSize, chunkVars, meshVars, nWrites, nLinks, m_Chunks, scanVars>>

SpecKeys == InitGame /\ [][NextKeys]_vars

\* C26: distinct chunk coordinates within the signed 21-bit range, negative
\* ones included, have distinct keys; getChunk of a coordinate is null or a
\* chunk whose position is that coordinate, and the chunk getOrCreateChunk
\* returns has the coordinate it was called with.
C26_KeysDistinct ==
    /\ \A a \in KeyCoords, b \in KeyCoords :
         a # b => getChunkKey(a[1], a[2], a[3]) # getChunkKey(b[1], b[2], b[3])
    /\ \A cc \in KeyCoords :
         \/ getChunk(cc[1], cc[2], cc[3]) = nullptr
         \/ m_Position[getChunk(cc[1], cc[2], cc[3])] = cc
    /\ last.op \in {"getOrCreateChunk", "getChunk"} /\ last.ret # nullptr =>
         m_Position[last.ret] = last.p

\* Two chunks exist, one at the lowest coordinate of the range and one at the
\* highest on some axis, and getOrCreateChunk has just returned the first of
\* them again for a coordinate with a negative axis.
C26_Witness ==
    /\ Len(m_Position) = 2
    /\ \E i \in 1..3 : m_Position[1][i] = MinKeyCoord /\ m_Position[2][i] = MaxKeyCoord
    /\ last.op = "getOrCreateChunk"
    /\ last.ret = 1
    /\ \E i \in 1..3 : last.p[i] = 0 - 1


\* ------------------------------------------- the lookups of a mesh build
\* The positions shouldRenderFace passes to getVoxelWorldSpace while chunk c
\* is meshed: buildGreedyMesh asks for every cell and direction, and the
\* lookup is made unless the cell is Air.
Lookups(c) ==
    {FaceNeighbor(a[1][1], a[1][2], a[1][3], a[2]) :
        a \in {b \in Cells \X Directions : getVoxel(c, b[1][1], b[1][2], b[1][3]) # Air}}

\* The key and the wrapped coordinate getVoxelWorldSpace computes for a
\* position outside the chunk.
LookupKey(n) ==
    NeighborKey(AxisOffset(n[1], CHUNK_SIZE_X), AxisOffset(n[2], CHUNK_SIZE_Y),
                AxisOffset(n[3], CHUNK_SIZE_Z))
LookupWrapped(n) ==
    <<AxisWrap(n[1], CHUNK_SIZE_X), AxisWrap(n[2], CHUNK_SIZE_Y), AxisWrap(n[3], CHUNK_SIZE_Z)>>

\* The keys setNeighbor stores under for the six axis directions.
SetNeighborKeys == {NeighborKey(d[1], d[2], d[3]) : d \in AxisDirs}

\* The axes on which a position is out of the chunk.
OutAxes(n) == {i \in 1..3 : n[i] < 0 \/ n[i] >= SizeVec[i]}

\* C27: every neighbor lookup of a mesh build is in bounds, or out of range
\* on exactly one axis by exactly one cell; then its key is one of the six
\* axis-direction keys of setNeighbor and its wrapped coordinate is in bounds.
C27_LookupsAxisAligned ==
    last.op = "buildMesh" =>
        \A n \in Lookups(Meshed) :
            \/ isValidPosition(n[1], n[2], n[3])
            \/ /\ Cardinality(OutAxes(n)) = 1
               /\ \A i \in OutAxes(n) : n[i] = 0 - 1 \/ n[i] = SizeVec[i]
               /\ LookupKey(n) \in SetNeighborKeys
               /\ isValidPosition(LookupWrapped(n)[1], LookupWrapped(n)[2], LookupWrapped(n)[3])

\* A chunk was meshed whose lookups include a position in bounds, one a cell
\* below the chunk on x and one a cell above it on y.
C27_Witness ==
    /\ last.op = "buildMesh"
    /\ \E n \in Lookups(Meshed) : isValidPosition(n[1], n[2], n[3])
    /\ \E n \in Lookups(Meshed) : n[1] = 0 - 1
    /\ \E n \in Lookups(Meshed) : n[2] = CHUNK_SIZE_Y


\* ------------------------------------------- the two builders compared
AgreeTypes == {Air, Stone, Water}

\* Writes and links in any order, and both builders run on chunk Meshed;
\* `last` names the last call and the one before it.
NextAgree ==
    \/ \E c \in ChunkIds, p \in Cells, type \in AgreeTypes :
         /\ SetVoxel(c, p[1], p[2], p[3], type)
         /\ last' = [op |-> "setVoxel", prev |-> last.op]
         /\ UNCHANGED <<chunkSize, scanVars, m_Chunks>>
    \/ \E direction \in AxisDirs :
         /\ SetNeighbor(Meshed, direction, Beside)
         /\ last' = [op |-> "setNeighbor", prev |-> last.op]
         /\ UNCHANGED <<chunkSize, scanVars, m_Chunks>>
    \/ /\ BuildMesh(Meshed)
       /\ last' = [op |-> "buildMesh", prev |-> last.op]
       /\ UNCHANGED <<chunkSize, scanVars, m_Chunks>>
    \/ /\ BuildMeshNaive(Meshed)
       /\ last' = [op |-> "buildMeshNaive", prev |-> last.op]
       /\ UNCHANGED <<chunkSize, scanVars, m_Chunks>>

SpecAgree == Init /\ [][NextAgree]_vars

\* The unit faces (direction, type, cell position) merged face f spans:
\* size[1] cells along the u axis of its direction and size[2] along v.
UnitFaces(f) ==
    LET b == Basis(f.direction)
    IN  {<<f.direction, f.type,
           [[f.start EXCEPT ![b[1] + 1] = @ + i] EXCEPT ![b[2] + 1] = @ + j]>> :
            i \in 0..(f.size[1] - 1), j \in 0..(f.size[2] - 1)}

\* The unit faces of a naive face list.
AddedFaces(faces) ==
    {<<faces[k].direction, faces[k].type, faces[k].position>> : k \in DOMAIN faces}

\* The greedy builder and then the naive one have run on the same chunk state.
BothBuilt == last.op = "buildMeshNaive" /\ last.prev = "buildMesh"

\* C28: for the same chunk state the unit faces covered by the merged faces
\* of the greedy builder are the faces the naive builder adds, and no unit
\* face is covered by two merged faces.
C28_GreedyEqualsNaive ==
    BothBuilt =>
        LET merged == m_MergedFaces[Meshed]
        IN  /\ UNION {UnitFaces(merged[k]) : k \in DOMAIN merged} = AddedFaces(m_Faces[Meshed])
            /\ \A k \in DOMAIN merged, j \in DOMAIN merged :
                 k # j => UnitFaces(merged[k]) \cap UnitFaces(merged[j]) = {}

\* Both builders have run on a chunk with a linked neighbor; a merged face
\* spans several cells and the naive list is longer than the merged one.
C28_Witness ==
    /\ BothBuilt
    /\ \E d \in AxisDirs : LinkedChunk(Meshed, d) # nullptr
    /\ \E k \in DOMAIN m_MergedFaces[Meshed] :
         m_MergedFaces[Meshed][k].size[1] * m_MergedFaces[Meshed][k].size[2] > 1
    /\ Len(m_Faces[Meshed]) > Len(m_MergedFaces[Meshed])


\* --------------------------------- chunk lookups against world lookups
\* The positions one cell outside a chunk on exactly one axis.
JustOutside ==
    {p \in Positions :
        /\ Cardinality(OutAxes(p)) = 1
        /\ \A i \in OutAxes(p) : p[i] = 0 - 1 \/ p[i] = SizeVec[i]}

\* The world position of local position p of chunk c.
WorldPosition(c, p) ==
    <<m_Position[c][1] * CHUNK_SIZE_X + p[1], m_Position[c][2] * CHUNK_SIZE_Y + p[2],
      m_Position[c][3] * CHUNK_SIZE_Z + p[3]>>

\* The linking loop of generateTestWorld has run for chunk c.
Linked(c) == linked[c] # <<>>

\* C29: once the neighbors of a chunk of the world index are linked, for
\* every position one cell outside it on one axis the chunk's
\* getVoxelWorldSpace returns what VoxelGame::getVoxel returns at the world
\* position, Air on both sides where no neighbor chunk exists.
C29_ChunkLookupIsWorldLookup ==
    \A c \in DOMAIN m_Position :
        Linked(c) =>
            \A p \in JustOutside :
                LET w == WorldPosition(c, p)
                    n == worldToChunkCoords(w[1], w[2], w[3])
                IN  /\ getVoxelWorldSpace(c, p[1], p[2], p[3]) = VoxelGame_getVoxel(w[1], w[2], w[3])
                    /\ getChunk(n[1], n[2], n[3]) = nullptr =>
                         getVoxelWorldSpace(c, p[1], p[2], p[3]) = Air

\* Every chunk is linked; the chunk at the origin sees a non-Air voxel of a
\* neighbor and Air in another, and an outer chunk looks where no chunk is.
C29_Witness ==
    /\ \A c \in DOMAIN m_Position : Linked(c)
    /\ \E p \in JustOutside, q \in JustOutside :
         /\ getVoxelWorldSpace(Center, p[1], p[2], p[3]) # Air
         /\ getVoxelWorldSpace(Center, q[1], q[2], q[3]) = Air
    /\ \E c \in DOMAIN m_Position, p \in JustOutside :
         LET w == WorldPosition(c, p)
             n == worldToChunkCoords(w[1], w[2], w[3])
         IN  getChunk(n[1], n[2], n[3]) = nullptr


\* --------------------------------------- writes and reads of the world
\* World positions on both sides of zero, and the first position of the
\* chunk column 2^21 chunks further along x, whose key fields are those of
\* chunk column 0.
NearX == (0 - 1)..0
FarX == {(KeyFieldMask + 1) * CHUNK_SIZE_X}
FarPositions == (NearX \cup FarX) \X ((0 - 1)..0) \X ((0 - 1)..0)
FarTypes == {Air, Stone}

\* The chunk coordinates of a position are within the range getChunkKey
\* is made for.
InKeyRange(p) ==
    \A i \in 1..3 :
        /\ worldToChunkCoords(p[1], p[2], p[3])[i] >= MinKeyCoord
        /\ worldToChunkCoords(p[1], p[2], p[3])[i] <= MaxKeyCoord
ChunkOf(p) ==
    getChunk(worldToChunkCoords(p[1], p[2], p[3])[1], worldToChunkCoords(p[1], p[2], p[3])[2],
             worldToChunkCoords(p[1], p[2], p[3])[3])
VoxelAt(p) == VoxelGame_getVoxel(p[1], p[2], p[3])

\* VoxelGame::setVoxel and VoxelGame::getVoxel at these positions, logged.
NextFar ==
    \/ \E p \in FarPositions, type \in FarTypes :
         /\ VoxelGame_setVoxel(p[1], p[2], p[3], type)
         /\ last' = [op |-> "setVoxel", p |-> p, ret |-> type]
         /\ UNCHANGED <<scanVars, chunkSize>>
    \/ \E p \in FarPositions :
         /\ last' = [op |-> "getVoxel", p |-> p, ret |-> VoxelGame_getVoxel(p[1], p[2], p[3])]
         /\ UNCHANGED <<chunkSize, chunkVars, meshVars, nWrites, nLinks, m_Chunks, scanVars>>

SpecFar == InitGame /\ [][NextFar]_vars

\* What a step of VoxelGame::getVoxel does: no chunk is created, and Air is
\* returned where the index has no chunk.
GetVoxelStep ==
    (last'.op = "getVoxel" /\ nWrites' = nWrites) =>
        /\ m_Chunks' = m_Chunks
        /\ m_Position' = m_Position
        /\ ChunkOf(last'.p) = nullptr => last'.ret = Air

\* C30 as stated: after setVoxel(p, t) at any integer position, getVoxel(p)
\* returns t and every other position reads as before; setVoxel creates the
\* chunk if absent; getVoxel of an absent chunk returns Air and creates none.
C30_Original ==
    [][/\ \A p \in FarPositions :
            (last'.op = "setVoxel" /\ last'.p = p /\ nWrites' = nWrites + 1) =>
                /\ VoxelAt(p)' = last'.ret
                /\ \A q \in FarPositions \ {p} : VoxelAt(q)' = VoxelAt(q)
                /\ ChunkOf(p)' # nullptr
                /\ Len(m_Position') = Len(m_Position) + (IF ChunkOf(p) = nullptr THEN 1 ELSE 0)
       /\ GetVoxelStep]_vars

\* C30: among the positions whose chunk coordinates are within the signed
\* 21-bit range of getChunkKey, negative ones included: after setVoxel(p, t),
\* getVoxel(p) returns t and every other such position reads as before;
\* setVoxel creates the chunk if absent; getVoxel of an absent chunk returns
\* Air and creates no chunk.
C30_WriteThenRead ==
    [][/\ \A p \in FarPositions :
            (InKeyRange(p) /\ last'.op = "setVoxel" /\ last'.p = p /\ nWrites' = nWrites + 1) =>
                /\ VoxelAt(p)' = last'.ret
                /\ \A q \in FarPositions \ {p} : InKeyRange(q) => VoxelAt(q)' = VoxelAt(q)
                /\ ChunkOf(p)' # nullptr
                /\ Len(m_Position') = Len(m_Position) + (IF ChunkOf(p) = nullptr THEN 1 ELSE 0)
       /\ GetVoxelStep]_vars

\* A second chunk was just created by a write of Stone at a position
\* negative on every axis, next to a chunk that holds Stone already.
C30_Witness ==
    /\ last.op = "setVoxel"
    /\ last.ret = Stone
    /\ \A i \in 1..3 : last.p[i] < 0
    /\ Len(m_Position) = 2
    /\ m_Position[2] = worldToChunkCoords(last.p[1], last.p[2], last.p[3])
    /\ \E i \in DOMAIN m_Voxels[1] : m_Voxels[1][i] = Stone

\* A read has just returned Air at a negative position whose chunk is not in
\* the index, after a write elsewhere.
C30_AbsentChunkRead ==
    /\ last.op = "getVoxel"
    /\ last.ret = Air
    /\ last.p[1] < 0
    /\ ChunkOf(last.p) = nullptr
    /\ nWrites > 0

====
